---- MODULE Spec2Model ----
(***************************************************************************)
(* A model of the condition rule engine of crypto_adventure_rpg:           *)
(*   - MissionSystem (src/mission_system.py): the progress dictionary, the *)
(*     action log, log_action / check_missions / check_titles and the      *)
(*     evaluators check_*_condition;                                       *)
(*   - ConditionParser (src/condition_parser.py): the ordered template     *)
(*     list, the dispatch on the matched template and the builders.        *)
(*                                                                         *)
(* Dates ("%Y-%m-%d" strings in the code) are day ordinals: the code only  *)
(* compares them for equality and takes the difference in days.            *)
(* A Python exception is a result value ("TypeError", "KeyError",          *)
(* "ValueError"); booleans returned by the evaluators are "True"/"False".  *)
(***************************************************************************)
EXTENDS Integers, Sequences, FiniteSets, TLC

VARIABLES
    today,             \* the calendar date datetime.now() yields
    progress,          \* MissionSystem.progress
    action_logs,       \* MissionSystem.action_logs
    progress_file,     \* content of mission_progress.json
    action_logs_file,  \* content of action_logs.json
    call,              \* the last call made on the MissionSystem
    ret,               \* ids of the missions / titles the last call returned
    evaluated,         \* ids the last call passed to check_mission_condition
    raised,            \* the exception the last call ended with, or "none"
    text,              \* ConditionParser: the sentence given to parse_condition_text
    parsed,            \* ConditionParser: what parse_condition_text returned
    pc,                \* ConditionParser: "text" before the call, "parsed" after
    missions,          \* self.missions: the lists of mission definitions
    titles,            \* self.titles: the list of title definitions
    missions_file,     \* missions.json
    titles_file        \* titles.json

vars == <<today, progress, action_logs, progress_file, action_logs_file,
          call, ret, evaluated, raised, text, parsed, pc,
          missions, titles, missions_file, titles_file>>

definitionVars == <<missions, titles, missions_file, titles_file>>

missionVars == <<today, progress, action_logs, progress_file, action_logs_file,
                 call, ret, evaluated, raised, definitionVars>>

parserVars == <<text, parsed, pc>>

\* ------------------------------------------------------------------ bounds
\* the last day of a run, and the most events a run logs
MaxDay == 3
MaxLog == 3
\* the most events a run of SpecCount logs
MaxCountLog == 4
\* the most events a run of SpecEval logs
MaxEvalLog == 2
\* the most events the memory holds in a run of SpecCrash or SpecFail
MaxCrashLog == 2
\* the most events a run of SpecPeriod logs
MaxPeriodLog == 3
\* the longest string of ValueStrings built from ValueChars
MaxValueLen == 3
\* the most definitions added, and the most events logged, in a run of SpecDefs
MaxDefs == 2
MaxDefLog == 2
\* the most events a run of SpecMetric logs
MaxMetricLog == 3

\* ------------------------------------------------------------- helpers
Range(s) == {s[i] : i \in 1..Len(s)}

\* the last n elements of s: Python's s[-n:] (the whole list when n = 0)
LastN(s, n) ==
    IF n = 0 \/ n >= Len(s) THEN s ELSE SubSeq(s, Len(s) - n + 1, Len(s))

\* ------------------------------------------------------------- values
\* A typed value as _parse_value yields it: bool, int and float carry the
\* number num/den (True is 1, False is 0, as Python compares them); str
\* carries its symbols.
BoolV(b)      == [t |-> "bool",  num |-> IF b THEN 1 ELSE 0, den |-> 1, s |-> <<>>]
IntV(n)       == [t |-> "int",   num |-> n, den |-> 1, s |-> <<>>]
FloatV(n, d)  == [t |-> "float", num |-> n, den |-> d, s |-> <<>>]
StrV(cs)      == [t |-> "str",   num |-> 0, den |-> 1, s |-> cs]

IsNumeric(v) == v.t \in {"bool", "int", "float"}

\* rank of a comparison result: what `actual op target` gives in Python 3 for
\* a numeric actual value. Ordering a number against a str raises TypeError;
\* == and != never raise.
Compare(actual, operator, target) ==
    IF IsNumeric(target)
    THEN LET l == actual * target.den
             r == target.num
         IN  CASE operator = ">=" -> IF l >= r THEN "True" ELSE "False"
               [] operator = "<=" -> IF l <= r THEN "True" ELSE "False"
               [] operator = "==" -> IF l = r THEN "True" ELSE "False"
               [] operator = "!=" -> IF l # r THEN "True" ELSE "False"
               [] operator = ">"  -> IF l > r THEN "True" ELSE "False"
               [] operator = "<"  -> IF l < r THEN "True" ELSE "False"
               [] OTHER -> "False"
    ELSE CASE operator = "==" -> "False"
           [] operator = "!=" -> "True"
           [] operator \in {">=", "<=", ">", "<"} -> "TypeError"
           [] OTHER -> "False"

\* ------------------------------------------------------- event data
\* action_data: a dict from metric names to numbers. keys is the set of keys
\* the dict holds; None and {} are both the dict without keys.
AllMetrics == {"power_usage_W", "mined_amount_XMR", "expected_output_kwh_per_day",
               "hashrate_khps"}

Data(ks, f) == [keys |-> ks, val |-> [m \in AllMetrics |-> IF m \in ks THEN f[m] ELSE 0]]

NoData == Data({}, [m \in AllMetrics |-> 0])

PowerData(w) == Data({"power_usage_W"}, [m \in AllMetrics |-> w])

\* the calls the environment makes: (action_type, action_data)
Events == { <<"mining", PowerData(15)>>,
            <<"advance_day", NoData>>,
            <<"custom", PowerData(25)>> }

\* ------------------------------------------------------- progress
PredefinedActions == {"mining", "cea", "power_plant", "astronomy", "build",
                      "advance_day", "learning", "review_day"}

DailyMetricKeys == {"power_usage_W", "mined_amount_XMR", "expected_output_kwh_per_day"}

NoDate == 0

ZeroActions == [a \in PredefinedActions |-> 0]

ZeroMetrics == [m \in DailyMetricKeys |-> 0]

\* load_progress when no progress file exists
load_progress(now) ==
    [ completed_missions |-> <<>>,
      unlocked_titles    |-> <<>>,
      action_counts      |-> ZeroActions,
      daily_actions      |-> [date |-> now, counts |-> ZeroActions],
      consecutive_days   |-> [advance_day |-> 0, last_date |-> NoDate],
      daily_metrics      |-> ZeroMetrics ]

\* dict.get(action_type, 0) on action_counts / daily_actions
GetCount(counts, action_type) ==
    IF action_type \in DOMAIN counts THEN counts[action_type] ELSE 0

update_consecutive_days_gap_continues(p, current_date) ==
    LET last_date == p.consecutive_days.last_date
        streak    == p.consecutive_days.advance_day
    IN  [p EXCEPT !.consecutive_days =
            [advance_day |-> IF last_date # NoDate /\ current_date - last_date >= 1
                             THEN streak + 1 ELSE 1,
             last_date   |-> current_date]]

update_consecutive_days(p, current_date) ==
    LET last_date == p.consecutive_days.last_date
        streak    == p.consecutive_days.advance_day
    IN  [p EXCEPT !.consecutive_days =
            [advance_day |-> IF last_date # NoDate
                             THEN IF current_date - last_date = 1
                                  THEN streak + 1
                                  ELSE 1
                             ELSE 1,
             last_date   |-> current_date]]

\* the day-change reset of update_action_count
reset_daily(p, current_date) ==
    IF p.daily_actions.date # current_date
    THEN [p EXCEPT !.daily_actions = [date |-> current_date, counts |-> ZeroActions],
                   !.daily_metrics = ZeroMetrics]
    ELSE p

\* update_action_count up to its save_progress
update_action_count(p, action_type, current_date) ==
    LET p1 == reset_daily(p, current_date)
        p2 == IF action_type \in DOMAIN p1.action_counts
              THEN [p1 EXCEPT !.action_counts[action_type] = @ + 1]
              ELSE p1
        p3 == IF action_type \in DOMAIN p2.daily_actions.counts
              THEN [p2 EXCEPT !.daily_actions.counts[action_type] = @ + 1]
              ELSE p2
    IN  IF action_type = "advance_day"
        THEN update_consecutive_days(p3, current_date)
        ELSE p3

update_daily_metrics(p, action_data) ==
    [p EXCEPT !.daily_metrics =
        [m \in DailyMetricKeys |->
            IF m \in action_data.keys THEN @[m] + action_data.val[m] ELSE @[m]]]

\* ------------------------------------------------------- sentences
\* A condition sentence is the sequence of its white-space separated tokens;
\* a token is [k, cs]: its kind and its symbols. Japanese words and the
\* operators U+2265 / U+2264 are written in ASCII:
\*   no = の   jikkou_kaisuu = 実行回数   ruikei = 累計   kaisuu = 回数
\*   1nichinai_no = 1日内の   1nichinai_ni = 1日内に   1nichinai = 1日内
\*   1nichinai_no_goukei = 1日内の合計   goukei = 合計   de = で   to = と
\*   wo_1kai_kanryou = を1回完了   wo_1kai_shiyou = を1回使用   katsu = かつ
\*   wo_jikkou = を実行   wo_doujitsu_ni_ryouhou_jikkou = を同日に両方実行
\*   no_izureka_de_kidou = のいずれかで起動   nite = にて   wo = を
\*   dewanaku = ではなく   mode_de_1kai_jikkou = モードで1回実行
\*   de_tsuki_wo_fukumu_kansoku_1kai_kanryou = で月を含む観測1回完了
\*   times = ×   GE = ≥   LE = ≤   BT = the backtick
\* Kinds: lit (a word), sym (/ or ×), id (`name`), bq (`text that is no \w+`),
\* op (a run of operator characters), val (characters of [\w.]), pct (N%),
\* list ([7,14,21]), streak (N日連続で), incr (の日次増分がN日連続で増加),
\* improve (がN日連続で改善), maintain (がN日連続で50%以上維持), typeeq (type=`T`).
Tok(k, cs) == [k |-> k, cs |-> cs]
Lit(w)     == Tok("lit", <<w>>)
Sym(w)     == Tok("sym", <<w>>)
Id(n)      == Tok("id", <<n>>)
Op(o)      == Tok("op", <<o>>)
Val(cs)    == Tok("val", cs)

DigitChars == {"0", "1", "2", "3", "4", "5", "6", "7", "8", "9"}

\* symbols that \w does not match
NonWordSyms == {"BT", "%", "/", "times", "[", "]", ",", "=", ".", " ",
                "GE", "LE", "==", "!=", ">", "<"}

IsWordOrDot(c) == c = "." \/ c \notin NonWordSyms

\* the text of a token, symbol by symbol
TokText(t) ==
    CASE t.k = "id"       -> <<"BT">> \o t.cs \o <<"BT">>
      [] t.k = "bq"       -> <<"BT">> \o t.cs \o <<"BT">>
      [] t.k = "pct"      -> t.cs \o <<"%">>
      [] t.k = "list"     -> <<"[">> \o t.cs \o <<"]">>
      [] t.k = "streak"   -> t.cs \o <<"nichi_renzoku_de">>
      [] t.k = "incr"     -> <<"no_nichiji_zoubun_ga">> \o t.cs \o <<"nichi_renzoku_de_zouka">>
      [] t.k = "improve"  -> <<"ga">> \o t.cs \o <<"nichi_renzoku_de_kaizen">>
      [] t.k = "maintain" -> <<"ga">> \o t.cs \o <<"nichi_renzoku_de_50", "%", "ijou_iji">>
      [] t.k = "typeeq"   -> <<"type", "=", "BT">> \o t.cs \o <<"BT">>
      [] OTHER            -> t.cs

RECURSIVE PrefixIn(_, _)
\* the longest prefix of cs whose symbols satisfy the class (a greedy [..]+)
PrefixIn(cs, isDigits) ==
    IF cs = <<>> THEN <<>>
    ELSE IF (IF isDigits THEN Head(cs) \in DigitChars ELSE IsWordOrDot(Head(cs)))
         THEN <<Head(cs)>> \o PrefixIn(Tail(cs), isDigits)
         ELSE <<>>

ClassElems == {"ID", "BQ", "OP", "WV", "D", "PCT", "LIST", "STREAK", "INCR",
               "IMPROVE", "MAINTAIN", "TYPEEQ"}

\* element e of a template matches the whole token t (white space on both sides)
MatchFull(e, t) ==
    CASE e = "ID"       -> t.k = "id"
      [] e = "BQ"       -> t.k \in {"id", "bq"}
      [] e = "OP"       -> t.k = "op"
      [] e = "WV"       -> PrefixIn(TokText(t), FALSE) = TokText(t) /\ TokText(t) # <<>>
      [] e = "D"        -> PrefixIn(TokText(t), TRUE) = TokText(t) /\ TokText(t) # <<>>
      [] e = "PCT"      -> t.k = "pct"
      [] e = "LIST"     -> t.k = "list"
      [] e = "STREAK"   -> t.k = "streak"
      [] e = "INCR"     -> t.k = "incr"
      [] e = "IMPROVE"  -> t.k = "improve"
      [] e = "MAINTAIN" -> t.k = "maintain"
      [] e = "TYPEEQ"   -> t.k = "typeeq"
      [] OTHER          -> t.k \in {"lit", "sym"} /\ t.cs = <<e>>

\* re.search is not anchored: the first element of a template may match the
\* end of a token, the last element the beginning of one
MatchFirst(e, t) ==
    IF e = "ID" THEN t.k \in {"id", "typeeq"} ELSE MatchFull(e, t)

MatchLast(e, t) ==
    CASE e = "WV" -> PrefixIn(TokText(t), FALSE) # <<>>
      [] e = "D"  -> PrefixIn(TokText(t), TRUE) # <<>>
      [] OTHER    -> MatchFull(e, t)

\* the capture group of element e matched on token t
Capture(e, t, isLast) ==
    CASE e = "WV" -> IF isLast THEN PrefixIn(TokText(t), FALSE) ELSE TokText(t)
      [] e = "D"  -> IF isLast THEN PrefixIn(TokText(t), TRUE) ELSE TokText(t)
      [] OTHER    -> t.cs

MatchAt(pattern, s, i) ==
    /\ i + Len(pattern) - 1 <= Len(s)
    /\ \A j \in 1..Len(pattern) :
         LET t == s[i + j - 1]
         IN  IF j = Len(pattern) THEN MatchLast(pattern[j], t)
             ELSE IF j = 1 THEN MatchFirst(pattern[j], t)
             ELSE MatchFull(pattern[j], t)

RECURSIVE GroupsFrom(_, _, _, _)
GroupsFrom(pattern, s, i, j) ==
    IF j > Len(pattern) THEN <<>>
    ELSE (IF pattern[j] \in ClassElems
          THEN <<Capture(pattern[j], s[i + j - 1], j = Len(pattern))>>
          ELSE <<>>) \o GroupsFrom(pattern, s, i, j + 1)

\* re.search(pattern, condition_text): the leftmost match and its groups
re_search(pattern, s) ==
    LET starts == {i \in 1..Len(s) : MatchAt(pattern, s, i)}
    IN  IF starts = {} THEN [matched |-> FALSE, groups |-> <<>>]
        ELSE LET i == CHOOSE x \in starts : \A y \in starts : x <= y
             IN  [matched |-> TRUE, groups |-> GroupsFrom(pattern, s, i, 1)]

\* ------------------------------------------------------- ConditionParser
action_mapping ==
    [ design_plant   |-> "power_plant",
      mine_log       |-> "mining",
      cea_run        |-> "cea",
      observe_optics |-> "astronomy",
      build_module   |-> "build",
      advance_day    |-> "advance_day",
      log_learning   |-> "learning",
      review_day     |-> "review_day" ]

\* self.action_mapping.get(action, action)
MapAction(action) ==
    IF action \in DOMAIN action_mapping THEN action_mapping[action] ELSE action

operator_mapping ==
    [o \in {"GE", "LE", "==", "!=", ">", "<"} |->
        CASE o = "GE" -> ">=" [] o = "LE" -> "<=" [] OTHER -> o]

\* self.operator_mapping.get(operator, operator)
MapOperator(operator) ==
    IF operator \in DOMAIN operator_mapping THEN operator_mapping[operator] ELSE operator

\* the ordered template list of parse_condition_text, one element per
\* white-space separated part of the regular expression:
\*   ID = `(\w+)`   BQ = `([^`]+)`   OP = ([≥≤==!=><]+)   WV = ([\w\.]+)
\*   D = (\d+)   PCT = (\d+)%   LIST = \[([\d,]+)\]   STREAK = (\d+)日連続で
\*   INCR = の日次増分が(\d+)日連続で増加   IMPROVE = が(\d+)日連続で改善
\*   MAINTAIN = が(\d+)日連続で50%以上維持   TYPEEQ = type=`(\w+)`
patterns == <<
    <<"ID", "no", "ID", "OP", "WV">>,
    <<"ID", "jikkou_kaisuu", "OP", "D">>,
    <<"ruikei", "ID", "jikkou_kaisuu", "OP", "D">>,
    <<"1nichinai_no", "ID", "kaisuu", "OP", "D">>,
    <<"1nichinai_ni", "ID", "jikkou_kaisuu", "OP", "D">>,
    <<"ID", "de", "BQ", "wo_1kai_kanryou">>,
    <<"ID", "no", "ID", "OP", "WV", "and", "ID", "OP", "WV">>,
    <<"ID", "no", "ID", "OP", "WV", "katsu", "ID", "OP", "WV">>,
    <<"1nichinai_no", "ID", "kaisuu", "OP", "D", "katsu", "ID", "OP", "WV">>,
    <<"STREAK", "ID", "wo_jikkou">>,
    <<"ruikei", "ID", "INCR">>,
    <<"ID", "to", "ID", "wo_doujitsu_ni_ryouhou_jikkou", "OP", "D">>,
    <<"ID", "no", "ID", "OP", "WV", "over", "D", "day">>,
    <<"ID", "no", "ID", "OP", "PCT">>,
    <<"ID", "no", "ID", "in", "LIST", "no_izureka_de_kidou">>,
    <<"ruikei", "ID", "OP", "WV">>,
    <<"1nichinai_no_goukei", "ID", "OP", "WV">>,
    <<"1nichinai", "ID", "goukei", "OP", "WV">>,
    <<"ID", "no", "ID", "IMPROVE">>,
    <<"ID", "no", "ID", "MAINTAIN">>,
    <<"ruikei", "ID", "OP", "WV", "over", "D", "day">>,
    <<"ID", "de", "ID", "OP", "WV", "wo_1kai_shiyou">>,
    <<"ID", "de", "ID", "OP", "WV", "wo_1kai_kanryou">>,
    <<"ID", "nite", "ID", "OP", "WV", "katsu", "ID", "OP", "WV">>,
    <<"ID", "wo", "Pool", "dewanaku", "Solo", "mode_de_1kai_jikkou">>,
    <<"ID", "de_tsuki_wo_fukumu_kansoku_1kai_kanryou">>,
    <<"ID", "no", "ID", "/", "ID", "OP", "WV">>,
    <<"ID", "no", "ID", "OP", "WV", "times", "ID", "OP", "WV">>,
    <<"ID", "jikkou_kaisuu", "for", "TYPEEQ", "OP", "D">> >>

\* which of the strings _parse_matched_condition looks for are substrings of
\* the text of each regular expression ("for type=" and "Pool ではなく Solo"
\* are substrings of none: the expressions hold \s+ where those hold a space)
pattern_keywords == <<
    {},
    {"jikkou_kaisuu"},
    {"jikkou_kaisuu", "ruikei"},
    {"1nichinai"},
    {"jikkou_kaisuu", "1nichinai"},
    {"wo_1kai_kanryou"},
    {"and"},
    {"katsu"},
    {"1nichinai", "katsu"},
    {"nichi_renzoku"},
    {"ruikei", "nichiji_zoubun", "nichi_renzoku"},
    {"doujitsu_ni_ryouhou_jikkou"},
    {"over"},
    {"%"},
    {"in", "no_izureka"},
    {"ruikei"},
    {"1nichinai", "goukei"},
    {"1nichinai", "goukei"},
    {"nichi_renzoku", "kaizen"},
    {"nichi_renzoku", "50%ijou_iji", "%"},
    {"ruikei", "over"},
    {"wo_1kai_shiyou"},
    {"wo_1kai_kanryou"},
    {"katsu", "nite"},
    {},
    {"tsuki_wo_fukumu"},
    {"/"},
    {"times"},
    {"jikkou_kaisuu"} >>

\* `keyword in pattern`
In(keyword, k) == keyword \in pattern_keywords[k]

\* ---- _parse_value
Lower(c) ==
    CASE c = "T" -> "t" [] c = "R" -> "r" [] c = "U" -> "u" [] c = "E" -> "e"
      [] c = "F" -> "f" [] c = "A" -> "a" [] c = "L" -> "l" [] c = "S" -> "s"
      [] OTHER -> c

DigitSeq == <<"0", "1", "2", "3", "4", "5", "6", "7", "8", "9">>

DigitVal(c) == (CHOOSE i \in 1..10 : DigitSeq[i] = c) - 1

RECURSIVE IntOf(_)
IntOf(cs) ==
    IF cs = <<>> THEN 0
    ELSE 10 * IntOf(SubSeq(cs, 1, Len(cs) - 1)) + DigitVal(cs[Len(cs)])

RECURSIVE Pow10(_)
Pow10(n) == IF n = 0 THEN 1 ELSE 10 * Pow10(n - 1)

\* int(cs) succeeds
IsIntLit(cs) == cs # <<>> /\ \A i \in 1..Len(cs) : cs[i] \in DigitChars

\* float(cs) succeeds, for cs of digits, letters and dots that holds a dot
\* (no exponent, inf or nan among the literals of this model)
IsFloatLit(cs) ==
    /\ Cardinality({i \in 1..Len(cs) : cs[i] = "."}) = 1
    /\ \A i \in 1..Len(cs) : cs[i] = "." \/ cs[i] \in DigitChars
    /\ Len(cs) >= 2

FloatOf(cs) ==
    LET dot == CHOOSE i \in 1..Len(cs) : cs[i] = "."
        ip  == SubSeq(cs, 1, dot - 1)
        fp  == SubSeq(cs, dot + 1, Len(cs))
    IN  FloatV(IntOf(ip \o fp), Pow10(Len(fp)))

\* value_str.strip(), for the blank " "
RECURSIVE strip(_)
strip(cs) ==
    IF cs # <<>> /\ Head(cs) = " " THEN strip(Tail(cs))
    ELSE IF cs # <<>> /\ cs[Len(cs)] = " " THEN strip(SubSeq(cs, 1, Len(cs) - 1))
    ELSE cs

\* 'true' and 'false' are told from the other strings by their exact letters
_parse_value_case_sensitive(value_str) ==
    LET stripped == strip(value_str)
    IN  IF stripped \in {<<"t", "r", "u", "e">>, <<"f", "a", "l", "s", "e">>}
        THEN BoolV(stripped = <<"t", "r", "u", "e">>)
        ELSE IF \E i \in 1..Len(stripped) : stripped[i] = "."
             THEN IF IsFloatLit(stripped) THEN FloatOf(stripped) ELSE StrV(stripped)
             ELSE IF IsIntLit(stripped) THEN IntV(IntOf(stripped)) ELSE StrV(stripped)

_parse_value(value_str) ==
    LET stripped == strip(value_str)
        lowered  == [i \in 1..Len(stripped) |-> Lower(stripped[i])]
    IN  IF lowered \in {<<"t", "r", "u", "e">>, <<"f", "a", "l", "s", "e">>}
        THEN BoolV(lowered = <<"t", "r", "u", "e">>)
        ELSE IF \E i \in 1..Len(stripped) : stripped[i] = "."
             THEN IF IsFloatLit(stripped) THEN FloatOf(stripped) ELSE StrV(stripped)
             ELSE IF IsIntLit(stripped) THEN IntV(IntOf(stripped)) ELSE StrV(stripped)

\* ---- the builders. A tuple assignment `a, b, c = groups` with another number
\* of groups raises ValueError, and so does int('').
ValueError == [type |-> "ValueError"]

Name(group) == group[1]

_parse_simple_condition(groups) ==
    IF Len(groups) # 4 THEN ValueError
    ELSE [ type     |-> "simple",
           action   |-> MapAction(Name(groups[1])),
           metric   |-> Name(groups[2]),
           operator |-> MapOperator(Name(groups[3])),
           value    |-> _parse_value(groups[4]) ]

_parse_count_condition(groups) ==
    IF Len(groups) # 3 THEN ValueError
    ELSE [ type     |-> "total_action_count",
           action   |-> MapAction(Name(groups[1])),
           operator |-> MapOperator(Name(groups[2])),
           count    |-> IntOf(groups[3]) ]

\* the dict literal gives the key "type" twice: the later value stands
_parse_type_count_condition(groups) ==
    IF Len(groups) # 4 THEN ValueError
    ELSE [ type     |-> Name(groups[2]),
           action   |-> MapAction(Name(groups[1])),
           operator |-> MapOperator(Name(groups[3])),
           count    |-> IntOf(groups[4]) ]

_parse_total_count_condition(groups) ==
    IF Len(groups) # 3 THEN ValueError
    ELSE [ type     |-> "total_action_count",
           action   |-> MapAction(Name(groups[1])),
           operator |-> MapOperator(Name(groups[2])),
           count    |-> IntOf(groups[3]) ]

_parse_total_metric_condition(groups) ==
    IF Len(groups) # 3 THEN ValueError
    ELSE [ type     |-> "total_metric",
           metric   |-> Name(groups[1]),
           operator |-> MapOperator(Name(groups[2])),
           value    |-> _parse_value(groups[3]) ]

_parse_daily_condition(groups) ==
    IF Len(groups) # 3 THEN ValueError
    ELSE [ type     |-> "daily_action_count",
           action   |-> MapAction(Name(groups[1])),
           operator |-> MapOperator(Name(groups[2])),
           count    |-> IntOf(groups[3]) ]

_parse_daily_total_condition(groups) ==
    IF Len(groups) # 3 THEN ValueError
    ELSE [ type     |-> "daily_total_metric",
           metric   |-> Name(groups[1]),
           operator |-> MapOperator(Name(groups[2])),
           value    |-> _parse_value(groups[3]) ]

_parse_daily_compound_condition(groups) ==
    IF Len(groups) # 6 THEN ValueError
    ELSE [ type            |-> "daily_compound",
           action          |-> MapAction(Name(groups[1])),
           action_operator |-> MapOperator(Name(groups[2])),
           action_count    |-> IntOf(groups[3]),
           metric          |-> Name(groups[4]),
           metric_operator |-> MapOperator(Name(groups[5])),
           metric_value    |-> _parse_value(groups[6]) ]

_parse_completion_condition(groups) ==
    IF Len(groups) # 2 THEN ValueError
    ELSE [ type      |-> "completion",
           action    |-> MapAction(Name(groups[1])),
           condition |-> Name(groups[2]) ]

_parse_usage_condition(groups) ==
    IF Len(groups) # 4 THEN ValueError
    ELSE [ type     |-> "usage",
           action   |-> MapAction(Name(groups[1])),
           metric   |-> Name(groups[2]),
           operator |-> MapOperator(Name(groups[3])),
           value    |-> _parse_value(groups[4]) ]

_parse_moon_observation_condition(groups) ==
    [ type |-> "moon_observation", action |-> MapAction(Name(groups[1])) ]

_parse_solo_mode_condition(groups) ==
    [ type |-> "solo_mode", action |-> MapAction(Name(groups[1])) ]

_parse_compound_condition(groups) ==
    IF Len(groups) = 7
    THEN [ type |-> "compound_and",
           conditions |-> <<
              [ action   |-> MapAction(Name(groups[1])),
                metric   |-> Name(groups[2]),
                operator |-> MapOperator(Name(groups[3])),
                value    |-> _parse_value(groups[4]) ],
              [ action   |-> MapAction(Name(groups[1])),
                metric   |-> Name(groups[5]),
                operator |-> MapOperator(Name(groups[6])),
                value    |-> _parse_value(groups[7]) ] >> ]
    ELSE [ type |-> "unknown", description |-> <<Tok("compound", <<>>)>> ]

_parse_consecutive_condition(groups) ==
    IF Len(groups) # 2 THEN ValueError
    ELSE [ type   |-> "consecutive_days",
           action |-> MapAction(Name(groups[2])),
           days   |-> IntOf(groups[1]) ]

_parse_improvement_condition(groups) ==
    IF Len(groups) # 3 THEN ValueError
    ELSE [ type   |-> "consecutive_improvement",
           action |-> MapAction(Name(groups[1])),
           metric |-> Name(groups[2]),
           days   |-> IntOf(groups[3]) ]

_parse_maintenance_condition(groups) ==
    IF Len(groups) # 3 THEN ValueError
    ELSE [ type      |-> "consecutive_maintenance",
           action    |-> MapAction(Name(groups[1])),
           metric    |-> Name(groups[2]),
           days      |-> IntOf(groups[3]),
           threshold |-> FloatV(5, 10) ]

_parse_incremental_condition(groups) ==
    IF Len(groups) # 2 THEN ValueError
    ELSE [ type   |-> "incremental_increase",
           metric |-> Name(groups[1]),
           days   |-> IntOf(groups[2]) ]

_parse_same_day_condition(groups) ==
    IF Len(groups) # 4 THEN ValueError
    ELSE [ type     |-> "same_day_both",
           actions  |-> <<MapAction(Name(groups[1])), MapAction(Name(groups[2]))>>,
           operator |-> MapOperator(Name(groups[3])),
           count    |-> IntOf(groups[4]) ]

_parse_over_period_condition(groups) ==
    IF Len(groups) = 5
    THEN [ type     |-> "over_period",
           action   |-> MapAction(Name(groups[1])),
           metric   |-> Name(groups[2]),
           operator |-> MapOperator(Name(groups[3])),
           value    |-> _parse_value(groups[4]),
           days     |-> IntOf(groups[5]) ]
    ELSE IF Len(groups) # 4 THEN ValueError
    ELSE [ type     |-> "over_period_total",
           metric   |-> Name(groups[1]),
           operator |-> MapOperator(Name(groups[2])),
           value    |-> _parse_value(groups[3]),
           days     |-> IntOf(groups[4]) ]

_parse_percentage_condition(groups) ==
    IF Len(groups) # 4 THEN ValueError
    ELSE [ type       |-> "percentage",
           action     |-> MapAction(Name(groups[1])),
           metric     |-> Name(groups[2]),
           operator   |-> MapOperator(Name(groups[3])),
           percentage |-> FloatV(IntOf(groups[4]), 1) ]

RECURSIVE Split(_, _)
\* values.split(','): cur is the piece being read
Split(cs, cur) ==
    IF cs = <<>> THEN <<cur>>
    ELSE IF Head(cs) = "," THEN <<cur>> \o Split(Tail(cs), <<>>)
         ELSE Split(Tail(cs), Append(cur, Head(cs)))

_parse_range_condition(groups) ==
    IF Len(groups) # 3 THEN ValueError
    ELSE LET pieces == Split(groups[3], <<>>)
         IN  IF \E i \in 1..Len(pieces) : ~IsIntLit(pieces[i]) THEN ValueError
             ELSE [ type   |-> "range_check",
                    action |-> MapAction(Name(groups[1])),
                    metric |-> Name(groups[2]),
                    values |-> [i \in 1..Len(pieces) |-> IntOf(pieces[i])] ]

_parse_ratio_condition(groups) ==
    IF Len(groups) # 5 THEN ValueError
    ELSE [ type     |-> "ratio",
           action   |-> MapAction(Name(groups[1])),
           metric1  |-> Name(groups[2]),
           metric2  |-> Name(groups[3]),
           operator |-> MapOperator(Name(groups[4])),
           value    |-> _parse_value(groups[5]) ]

_parse_multiplication_condition(groups) ==
    IF Len(groups) # 7 THEN ValueError
    ELSE [ type      |-> "multiplication",
           action    |-> MapAction(Name(groups[1])),
           metric1   |-> Name(groups[2]),
           operator1 |-> MapOperator(Name(groups[3])),
           value1    |-> _parse_value(groups[4]),
           metric2   |-> Name(groups[5]),
           operator2 |-> MapOperator(Name(groups[6])),
           value2    |-> _parse_value(groups[7]) ]

\* k is the index of the matched template in patterns
_parse_matched_condition_always_simple(groups, k) == _parse_simple_condition(groups)

_parse_matched_condition(groups, k) ==
    IF In("jikkou_kaisuu", k) /\ In("for type=", k)
        THEN _parse_type_count_condition(groups)
    ELSE IF In("jikkou_kaisuu", k)
        THEN _parse_count_condition(groups)
    ELSE IF In("ruikei", k) /\ In("jikkou_kaisuu", k)
        THEN _parse_total_count_condition(groups)
    ELSE IF In("ruikei", k) /\ In("nichiji_zoubun", k)
        THEN _parse_incremental_condition(groups)
    ELSE IF In("ruikei", k)
        THEN _parse_total_metric_condition(groups)
    ELSE IF In("1nichinai", k) /\ In("goukei", k)
        THEN _parse_daily_total_condition(groups)
    ELSE IF In("1nichinai", k) /\ In("katsu", k)
        THEN _parse_daily_compound_condition(groups)
    ELSE IF In("1nichinai", k)
        THEN _parse_daily_condition(groups)
    ELSE IF In("wo_1kai_kanryou", k) /\ In("tsuki_wo_fukumu", k)
        THEN _parse_moon_observation_condition(groups)
    ELSE IF In("wo_1kai_kanryou", k)
        THEN _parse_completion_condition(groups)
    ELSE IF In("wo_1kai_shiyou", k)
        THEN _parse_usage_condition(groups)
    ELSE IF In("and", k) \/ In("katsu", k) \/ In("nite", k)
        THEN _parse_compound_condition(groups)
    ELSE IF In("nichi_renzoku", k) /\ In("kaizen", k)
        THEN _parse_improvement_condition(groups)
    ELSE IF In("nichi_renzoku", k) /\ In("50%ijou_iji", k)
        THEN _parse_maintenance_condition(groups)
    ELSE IF In("nichi_renzoku", k)
        THEN _parse_consecutive_condition(groups)
    ELSE IF In("doujitsu_ni_ryouhou_jikkou", k)
        THEN _parse_same_day_condition(groups)
    ELSE IF In("over", k)
        THEN _parse_over_period_condition(groups)
    ELSE IF In("%", k)
        THEN _parse_percentage_condition(groups)
    ELSE IF In("in", k) /\ In("no_izureka", k)
        THEN _parse_range_condition(groups)
    ELSE IF In("/", k)
        THEN _parse_ratio_condition(groups)
    ELSE IF In("times", k)
        THEN _parse_multiplication_condition(groups)
    ELSE IF In("Pool dewanaku Solo", k)
        THEN _parse_solo_mode_condition(groups)
    ELSE _parse_simple_condition(groups)

\* the default condition of parse_condition_text
unknown_condition_without_text(condition_text) ==
    [ type |-> "unknown", action |-> "unknown", description |-> <<>> ]

unknown_condition(condition_text) ==
    [ type |-> "unknown", action |-> "unknown", description |-> condition_text ]

\* the templates that match condition_text, by their place in the list
Matching(condition_text) ==
    {k \in 1..Len(patterns) : re_search(patterns[k], condition_text).matched}

parse_condition_text(condition_text) ==
    LET found == Matching(condition_text)
    IN  IF found = {} THEN unknown_condition(condition_text)
        ELSE LET k == CHOOSE x \in found : \A y \in found : x <= y
             IN  _parse_matched_condition(re_search(patterns[k], condition_text).groups, k)

\* ------------------------------------------------------- the sentences parsed
ValueLiterals == { <<"0">>, <<"2", "0">>, <<"1", ".", "0">>, <<"1", ".", "2", ".", "3">>,
                   <<"T", "r", "u", "e">>, <<"a", "l", "l">> }

SentenceOps == {"GE", "LE", "==", "="}

SentenceActions == {"mine_log", "custom"}

\* `A` の `M` op V
SimpleSentence(a, m, o, v) == <<Id(a), Lit("no"), Id(m), Op(o), Val(v)>>

\* 1日内の `A` 回数 op N
DailySentence(a, o, n) == <<Lit("1nichinai_no"), Id(a), Lit("kaisuu"), Op(o), Val(n)>>

\* 1日内の `A` 回数 op N かつ `M` op V
DailyCompoundSentence(a, o1, n, m, o2, v) ==
    DailySentence(a, o1, n) \o <<Lit("katsu"), Id(m), Op(o2), Val(v)>>

\* one sentence for each template of the list that a sentence can reach first
TemplateSentences == {
    <<Id("mine_log"), Lit("jikkou_kaisuu"), Op("GE"), Val(<<"3">>)>>,
    <<Lit("ruikei"), Id("cea_run"), Lit("jikkou_kaisuu"), Op("GE"), Val(<<"1", "0">>)>>,
    <<Lit("1nichinai_ni"), Id("mine_log"), Lit("jikkou_kaisuu"), Op("GE"), Val(<<"3">>)>>,
    <<Id("mine_log"), Lit("de"), Tok("bq", <<"randomX == true">>), Lit("wo_1kai_kanryou")>>,
    <<Id("cea_run"), Lit("no"), Id("isp_sec"), Op("GE"), Val(<<"3", "1", "0">>), Lit("and"),
      Id("chamber_pressure_bar"), Op("GE"), Val(<<"1", "0", "0">>)>>,
    <<Tok("streak", <<"3">>), Id("advance_day"), Lit("wo_jikkou")>>,
    <<Lit("ruikei"), Id("mined_amount_XMR"), Tok("incr", <<"3">>)>>,
    <<Id("mine_log"), Lit("to"), Id("design_plant"), Lit("wo_doujitsu_ni_ryouhou_jikkou"),
      Op("GE"), Val(<<"1">>)>>,
    <<Id("mine_log"), Lit("no"), Id("power_usage_W"), Op("LE"), Val(<<"2", "0">>),
      Lit("over"), Val(<<"7">>), Lit("day")>>,
    <<Id("observe_optics"), Lit("no"), Id("tracking_accuracy"), Op("GE"), Tok("pct", <<"9", "0">>)>>,
    <<Id("advance_day"), Lit("no"), Id("day_count"), Lit("in"),
      Tok("list", <<"7", ",", "1", "4", ",", "2", "1">>), Lit("no_izureka_de_kidou")>>,
    <<Lit("ruikei"), Id("mined_amount_XMR"), Op("GE"), Val(<<"0", ".", "0", "1">>)>>,
    <<Lit("1nichinai_no_goukei"), Id("power_usage_W"), Op("LE"), Val(<<"1", "0", "0">>)>>,
    <<Lit("1nichinai"), Id("power_usage_W"), Lit("goukei"), Op("LE"), Val(<<"1", "0", "0">>)>>,
    <<Id("mine_log"), Lit("no"), Id("hashrate_khps"), Tok("improve", <<"3">>)>>,
    <<Id("mine_log"), Lit("no"), Id("hashrate_khps"), Tok("maintain", <<"3">>)>>,
    <<Id("build_module"), Lit("de"), Id("material_count"), Op("GE"), Val(<<"5">>),
      Lit("wo_1kai_shiyou")>>,
    <<Id("build_module"), Lit("de"), Id("material_count"), Op("GE"), Val(<<"5">>),
      Lit("wo_1kai_kanryou")>>,
    <<Id("cea_run"), Lit("nite"), Id("isp_sec"), Op("GE"), Val(<<"3", "1", "0">>), Lit("katsu"),
      Id("chamber_pressure_bar"), Op("GE"), Val(<<"1", "0", "0">>)>>,
    <<Id("mine_log"), Lit("wo"), Lit("Pool"), Lit("dewanaku"), Lit("Solo"),
      Lit("mode_de_1kai_jikkou")>>,
    <<Id("observe_optics"), Lit("de_tsuki_wo_fukumu_kansoku_1kai_kanryou")>>,
    <<Id("mine_log"), Lit("no"), Id("power_usage_W"), Sym("/"), Id("hashrate_khps"),
      Op("LE"), Val(<<"0", ".", "1">>)>>,
    <<Id("mine_log"), Lit("no"), Id("power_usage_W"), Op("LE"), Val(<<"2", "0">>),
      Sym("times"), Id("hashrate_khps"), Op("GE"), Val(<<"5">>)>>,
    <<Id("mine_log"), Lit("jikkou_kaisuu"), Lit("for"), Tok("typeeq", <<"simple">>),
      Op("GE"), Val(<<"3">>)>> }

\* sentences no template matches: free text, the empty text, a sentence cut
\* before its value, a count that is no number, words of templates in an
\* order no template has
NonTemplateSentences == {
    <<>>,
    <<Lit("hello")>>,
    <<Id("mine_log")>>,
    <<Id("mine_log"), Lit("no"), Id("power_usage_W"), Op("GE")>>,
    <<Id("mine_log"), Lit("no"), Id("power_usage_W"), Val(<<"2", "0">>)>>,
    <<Id("mine_log"), Lit("jikkou_kaisuu"), Op("GE"), Val(<<"a", "l", "l">>)>>,
    <<Id("mine_log"), Lit("kaisuu"), Op("GE"), Val(<<"3">>)>>,
    <<Lit("1nichinai_no"), Id("mine_log"), Lit("kaisuu"), Op("GE")>>,
    <<Lit("1nichinai_no"), Lit("kaisuu"), Op("GE"), Val(<<"1">>)>>,
    <<Lit("ruikei"), Lit("jikkou_kaisuu"), Op("GE"), Val(<<"1">>)>>,
    <<Tok("streak", <<"3">>), Lit("wo_jikkou")>>,
    <<Lit("wo_jikkou"), Id("advance_day"), Tok("streak", <<"3">>)>>,
    <<Tok("bq", <<"randomX == true">>), Lit("no"), Id("x"), Op("GE"), Val(<<"1">>)>>,
    <<Id("mine_log"), Lit("no"), Id("power_usage_W"), Op("GE"), Sym("/")>>,
    <<Val(<<"2", "0">>), Op("GE"), Id("mine_log"), Lit("no"), Id("power_usage_W")>> }

\* sentences of two templates that the list holds after a template matching
\* their first words: `A` no `M` op V katsu `M2` op V2 (template 8, after 1)
\* and ruikei `M` op V over N day (template 21, after 16)
OverlapSentences == {
    <<Id("cea_run"), Lit("no"), Id("isp_sec"), Op("GE"), Val(<<"3", "1", "0">>), Lit("katsu"),
      Id("chamber_pressure_bar"), Op("GE"), Val(<<"1", "0", "0">>)>>,
    <<Lit("ruikei"), Id("mined_amount_XMR"), Op("GE"), Val(<<"1">>),
      Lit("over"), Val(<<"7">>), Lit("day")>> }

Sentences ==
    { SimpleSentence(a, "power_usage_W", o, v) :
        a \in SentenceActions, o \in SentenceOps, v \in ValueLiterals }
    \cup { DailySentence(a, o, <<"1">>) : a \in SentenceActions, o \in SentenceOps }
    \cup { DailyCompoundSentence(a, o1, <<"1">>, "power_usage_W", o2, v) :
             a \in SentenceActions, o1 \in {"GE", "=="}, o2 \in {"LE", "GE"},
             v \in ValueLiterals }
    \cup TemplateSentences
    \cup OverlapSentences
    \cup NonTemplateSentences

\* ------------------------------------------------------- mission definitions
\* missions.json and titles.json hold each entry with its condition as the
\* dict parse_condition_text gave for the sentence of the entry (the
\* converters store the parsed dict), or as a dict written by hand.
Entry(id, condition) == [id |-> id, condition |-> condition]

\* `mine_log` 実行回数 ≥ 3
TotalMining3 ==
    [ type |-> "total_action_count", action |-> "mining", operator |-> ">=", count |-> 3 ]

DailyCompoundCondition ==
    [ type |-> "daily_compound", action |-> "mining",
      action_operator |-> ">=", action_count |-> 1,
      metric |-> "power_usage_W", metric_operator |-> "<=", metric_value |-> IntV(20) ]

\* a sentence no template matches
UnknownCondition ==
    [ type |-> "unknown", action |-> "unknown", description |-> <<Lit("hello")>> ]

\* `mine_log` の `mined_amount_XMR` ≥ 1
XmrCondition ==
    [ type |-> "simple", action |-> "mining", metric |-> "mined_amount_XMR",
      operator |-> ">=", value |-> IntV(1) ]

\* `custom` の `power_usage_W` ≥ 1.2.3
MalformedCondition ==
    [ type |-> "simple", action |-> "custom", metric |-> "power_usage_W",
      operator |-> ">=", value |-> StrV(<<"1", ".", "2", ".", "3">>) ]

\* 2日連続で `advance_day` を実行
Streak2Condition ==
    [ type |-> "consecutive_days", action |-> "advance_day", days |-> 2 ]

missions_json ==
    [ main_missions |-> << Entry("m_total3", TotalMining3),
                           Entry("m_compound", DailyCompoundCondition),
                           Entry("m_unknown", UnknownCondition) >>,
      sub_missions  |-> << Entry("m_xmr", XmrCondition),
                           Entry("m_malformed", MalformedCondition) >> ]

titles_json ==
    [ titles |-> << Entry("t_streak2", Streak2Condition),
                    Entry("t_unknown", UnknownCondition) >> ]

\* ------------------------------------------------------- the evaluators
check_simple_condition(condition, action_type, action_data) ==
    IF condition.action # action_type \/ action_data.keys = {} THEN "False"
    ELSE IF condition.metric \notin action_data.keys THEN "False"
    ELSE Compare(action_data.val[condition.metric], condition.operator, condition.value)

\* the operator chain of check_total_action_count / check_daily_action_count
compare_count(current_count, operator, target_count) ==
    CASE operator = ">=" -> IF current_count >= target_count THEN "True" ELSE "False"
      [] operator = "<=" -> IF current_count <= target_count THEN "True" ELSE "False"
      [] operator = "==" -> IF current_count = target_count THEN "True" ELSE "False"
      [] OTHER -> "False"

check_total_action_count_gt(condition, action_type) ==
    IF condition.action # action_type THEN "False"
    ELSE IF condition.operator = ">="
         THEN IF GetCount(progress.action_counts, action_type) > condition.count
              THEN "True" ELSE "False"
         ELSE compare_count(GetCount(progress.action_counts, action_type),
                            condition.operator, condition.count)

check_total_action_count(condition, action_type) ==
    IF condition.action # action_type THEN "False"
    ELSE compare_count(GetCount(progress.action_counts, action_type),
                       condition.operator, condition.count)

check_daily_action_count(condition, action_type) ==
    IF condition.action # action_type THEN "False"
    ELSE compare_count(GetCount(progress.daily_actions.counts, action_type),
                       condition.operator, condition.count)

check_completion_condition(condition, action_type, action_data) ==
    IF condition.action # action_type \/ action_data.keys = {} THEN "False"
    ELSE "True"

RECURSIVE check_compound_and_condition_from(_, _, _, _)
check_compound_and_condition_from(conditions, i, action_type, action_data) ==
    IF i > Len(conditions) THEN "True"
    ELSE LET r == check_simple_condition(conditions[i], action_type, action_data)
         IN  IF r = "True"
             THEN check_compound_and_condition_from(conditions, i + 1, action_type, action_data)
             ELSE r

check_compound_and_condition(condition, action_type, action_data) ==
    check_compound_and_condition_from(condition.conditions, 1, action_type, action_data)

\* self.progress["consecutive_days"].get(action_type, 0) >= target_days; the
\* dict also holds last_date, a date string or None, which does not order
\* against a number
check_consecutive_days_condition(condition, action_type) ==
    IF condition.action # action_type THEN "False"
    ELSE IF action_type = "advance_day"
         THEN IF progress.consecutive_days.advance_day >= condition.days
              THEN "True" ELSE "False"
    ELSE IF action_type = "last_date" THEN "TypeError"
    ELSE IF 0 >= condition.days THEN "True" ELSE "False"

check_incremental_increase_condition(condition) ==
    LET recent_logs == SelectSeq(LastN(action_logs, condition.days),
                                 LAMBDA log : condition.metric \in log.data.keys)
    IN  IF Len(recent_logs) < condition.days THEN "False"
        ELSE IF \E i \in 2..Len(recent_logs) :
                    recent_logs[i].data.val[condition.metric]
                        <= recent_logs[i - 1].data.val[condition.metric]
             THEN "False"
             ELSE "True"

check_same_day_both_condition(condition, action_type) ==
    LET today_actions == {action_logs[i].action_type :
                             i \in {j \in 1..Len(action_logs) : action_logs[j].date = today}}
        both_executed == \A i \in 1..Len(condition.actions) :
                             condition.actions[i] \in today_actions
    IN  CASE condition.operator = ">=" ->
                 IF both_executed /\ condition.count >= 1 THEN "True" ELSE "False"
          [] condition.operator = "==" ->
                 IF both_executed /\ condition.count = 1 THEN "True" ELSE "False"
          [] OTHER -> "False"

check_over_period_condition(condition, action_type, action_data) ==
    IF condition.action # action_type \/ action_data.keys = {} THEN "False"
    ELSE LET recent_logs ==
                 SelectSeq(LastN(action_logs, condition.days),
                           LAMBDA log : /\ log.action_type = action_type
                                        /\ condition.metric \in log.data.keys)
             Violates(log) ==
                 \/ /\ condition.operator = ">="
                    /\ Compare(log.data.val[condition.metric], "<", condition.value) = "True"
                 \/ /\ condition.operator = "<="
                    /\ Compare(log.data.val[condition.metric], ">", condition.value) = "True"
         IN  IF recent_logs = <<>> THEN "False"
             ELSE IF condition.operator \in {">=", "<="} /\ ~IsNumeric(condition.value)
                  THEN "TypeError"
             ELSE IF \E i \in 1..Len(recent_logs) : Violates(recent_logs[i]) THEN "False"
             ELSE "True"

check_percentage_condition(condition, action_type, action_data) ==
    IF condition.action # action_type \/ action_data.keys = {} THEN "False"
    ELSE IF condition.metric \notin action_data.keys THEN "False"
    ELSE "True"

check_range_condition(condition, action_type, action_data) ==
    IF condition.action # action_type \/ action_data.keys = {} THEN "False"
    ELSE IF condition.metric \notin action_data.keys THEN "False"
    ELSE IF \E i \in 1..Len(condition.values) :
                condition.values[i] = action_data.val[condition.metric]
         THEN "True" ELSE "False"

\* the backward-compatible first_action type
check_first_action(condition, action_type) ==
    IF condition.action # action_type THEN "False"
    ELSE IF action_type \notin DOMAIN progress.action_counts THEN "KeyError"
    ELSE IF progress.action_counts[action_type] = 1 THEN "True" ELSE "False"

\* the final `return False` of check_mission_condition: a type no branch names
no_branch_completes(condition) == "True"

no_branch(condition) == "False"

\* a condition kept as its sentence: a str, where the others are dicts
Text(sentence) == [str |-> sentence]

IsStr(condition) == DOMAIN condition = {"str"}

\* condition["type"] raises TypeError on a str
check_mission_condition(mission, action_type, action_data) ==
    LET condition == mission.condition
    IN  IF IsStr(condition) THEN "TypeError" ELSE
        CASE condition.type = "simple" ->
                 check_simple_condition(condition, action_type, action_data)
          [] condition.type = "total_action_count" ->
                 check_total_action_count(condition, action_type)
          [] condition.type = "daily_action_count" ->
                 check_daily_action_count(condition, action_type)
          [] condition.type = "completion" ->
                 check_completion_condition(condition, action_type, action_data)
          [] condition.type = "compound_and" ->
                 check_compound_and_condition(condition, action_type, action_data)
          [] condition.type = "consecutive_days" ->
                 check_consecutive_days_condition(condition, action_type)
          [] condition.type = "incremental_increase" ->
                 check_incremental_increase_condition(condition)
          [] condition.type = "same_day_both" ->
                 check_same_day_both_condition(condition, action_type)
          [] condition.type = "over_period" ->
                 check_over_period_condition(condition, action_type, action_data)
          [] condition.type = "percentage" ->
                 check_percentage_condition(condition, action_type, action_data)
          [] condition.type = "range_check" ->
                 check_range_condition(condition, action_type, action_data)
          [] condition.type = "first_action" ->
                 check_first_action(condition, action_type)
          [] OTHER -> no_branch(condition)

\* ------------------------------------------------------- persistence
\* a file that holds the whole dump of content
File(content) == [exists |-> TRUE, whole |-> TRUE, content |-> content]

\* open(path, 'w') has emptied the file and json.dump has written a proper
\* prefix of the dump of content (or nothing) to it: no JSON document
TornFile(content) == [exists |-> TRUE, whole |-> FALSE, content |-> content]

\* load_missions and load_titles: the content of the file, or the empty lists
\* when there is no file
load_missions(file) ==
    IF file.exists THEN file.content
    ELSE [main_missions |-> <<>>, sub_missions |-> <<>>]

load_titles(file) ==
    IF file.exists THEN file.content ELSE [titles |-> <<>>]

\* ------------------------------------------------------- the operations
\* log_action(action_type, action_data): append and save the log, update the
\* counts (update_action_count saves the progress), then the daily metrics
log_action(action_type, action_data) ==
    LET counted == update_action_count(progress, action_type, today)
    IN  /\ action_logs' = Append(action_logs,
               [date |-> today, action_type |-> action_type, data |-> action_data])
        /\ action_logs_file' = File(action_logs')
        /\ progress_file' = File(counted)
        /\ progress' = IF action_data.keys # {}
                       THEN update_daily_metrics(counted, action_data)
                       ELSE counted
        /\ call' = "log_action"
        /\ ret' = <<>>
        /\ evaluated' = {}
        /\ raised' = "none"
        /\ UNCHANGED <<today, parserVars, definitionVars>>

\* the loops of check_missions and check_titles over the entries `items`:
\* acc.done is the completed list, acc.out the list to return
RECURSIVE check_loop_rechecks(_, _, _, _)
check_loop_rechecks(items, acc, action_type, action_data) ==
    IF items = <<>> \/ acc.raised # "none" THEN acc
    ELSE LET item == Head(items)
             r    == check_mission_condition(item, action_type, action_data)
         IN  check_loop_rechecks(Tail(items),
                 [ done      |-> IF r = "True" THEN Append(acc.done, item.id) ELSE acc.done,
                   out       |-> IF r = "True" THEN Append(acc.out, item.id) ELSE acc.out,
                   evaluated |-> acc.evaluated \cup {item.id},
                   raised    |-> IF r \in {"True", "False"} THEN "none" ELSE r ],
                 action_type, action_data)

RECURSIVE check_loop(_, _, _, _)
check_loop(items, acc, action_type, action_data) ==
    IF items = <<>> \/ acc.raised # "none" THEN acc
    ELSE LET item == Head(items)
         IN  IF item.id \in Range(acc.done)
             THEN check_loop(Tail(items), acc, action_type, action_data)
             ELSE LET r == check_mission_condition(item, action_type, action_data)
                  IN  check_loop(Tail(items),
                          [ done      |-> IF r = "True" THEN Append(acc.done, item.id)
                                          ELSE acc.done,
                            out       |-> IF r = "True" THEN Append(acc.out, item.id)
                                          ELSE acc.out,
                            evaluated |-> acc.evaluated \cup {item.id},
                            raised    |-> IF r \in {"True", "False"} THEN "none" ELSE r ],
                          action_type, action_data)

Start(done) == [done |-> done, out |-> <<>>, evaluated |-> {}, raised |-> "none"]

\* check_missions(action_type, action_data); an exception of an evaluator
\* leaves the loop before save_progress and the return
check_missions(action_type, action_data) ==
    LET r == check_loop(missions.main_missions \o missions.sub_missions,
                        Start(progress.completed_missions), action_type, action_data)
    IN  /\ progress' = [progress EXCEPT !.completed_missions = r.done]
        /\ progress_file' = IF r.raised = "none" THEN File(progress') ELSE progress_file
        /\ ret' = IF r.raised = "none" THEN r.out ELSE <<>>
        /\ evaluated' = r.evaluated
        /\ raised' = r.raised
        /\ call' = "check_missions"
        /\ UNCHANGED <<today, action_logs, action_logs_file, parserVars, definitionVars>>

check_titles(action_type, action_data) ==
    LET r == check_loop(titles.titles, Start(progress.unlocked_titles),
                        action_type, action_data)
    IN  /\ progress' = [progress EXCEPT !.unlocked_titles = r.done]
        /\ progress_file' = IF r.raised = "none" THEN File(progress') ELSE progress_file
        /\ ret' = IF r.raised = "none" THEN r.out ELSE <<>>
        /\ evaluated' = r.evaluated
        /\ raised' = r.raised
        /\ call' = "check_titles"
        /\ UNCHANGED <<today, action_logs, action_logs_file, parserVars, definitionVars>>

\* midnight passes: datetime.now() yields the next date
Tick ==
    /\ today < MaxDay
    /\ today' = today + 1
    /\ call' = "tick"
    /\ ret' = <<>>
    /\ evaluated' = {}
    /\ raised' = "none"
    /\ UNCHANGED <<progress, action_logs, progress_file, action_logs_file, parserVars, definitionVars>>

\* parse_condition_text(text)
Parse ==
    /\ pc = "text"
    /\ parsed' = parse_condition_text(text)
    /\ pc' = "parsed"
    /\ UNCHANGED <<text, missionVars>>

NoParse == [type |-> "none"]

\* MissionSystem(data_dir) on a data directory with no progress file and no
\* log file
ProgressInit ==
    /\ today = 1
    /\ progress = load_progress(today)
    /\ action_logs = <<>>
    /\ progress_file = [exists |-> FALSE, whole |-> TRUE, content |-> load_progress(today)]
    /\ action_logs_file = [exists |-> FALSE, whole |-> TRUE, content |-> <<>>]
    /\ call = "init"
    /\ ret = <<>>
    /\ evaluated = {}
    /\ raised = "none"

\* MissionSystem(data_dir) on a data directory that holds missions.json and
\* titles.json and no other file
MissionInit ==
    /\ missions_file = File(missions_json)
    /\ titles_file = File(titles_json)
    /\ missions = load_missions(missions_file)
    /\ titles = load_titles(titles_file)
    /\ ProgressInit

Init ==
    /\ MissionInit
    /\ text = <<>>
    /\ parsed = NoParse
    /\ pc = "idle"

Next ==
    \/ Tick
    \/ \E e \in Events : Len(action_logs) < MaxLog /\ log_action(e[1], e[2])
    \/ \E e \in Events : check_missions(e[1], e[2])
    \/ \E e \in Events : check_titles(e[1], e[2])

Spec == Init /\ [][Next]_vars

\* runs that log mining events and events of a type that is not predefined,
\* with a check of the missions between them
CountEvents == { <<"mining", PowerData(15)>>, <<"custom", PowerData(25)>> }

NextCount ==
    \/ Tick
    \/ \E e \in CountEvents : Len(action_logs) < MaxCountLog /\ log_action(e[1], e[2])
    \/ \E e \in CountEvents : check_missions(e[1], e[2])

SpecCount == Init /\ [][NextCount]_vars

\* a caller's own call of check_mission_condition(mission, action_type,
\* action_data): the evaluators read self.progress and self.action_logs and
\* assign to neither
call_check_mission_condition_completing(mission, action_type, action_data) ==
    LET r == check_mission_condition(mission, action_type, action_data)
    IN  /\ ret' = IF r \in {"True", "False"} THEN <<r>> ELSE <<>>
        /\ raised' = IF r \in {"True", "False"} THEN "none" ELSE r
        /\ evaluated' = {mission.id}
        /\ call' = "check_mission_condition"
        /\ progress' = IF r = "True" /\ mission.id \notin Range(progress.completed_missions)
                       THEN [progress EXCEPT !.completed_missions = Append(@, mission.id)]
                       ELSE progress
        /\ UNCHANGED <<today, action_logs, progress_file, action_logs_file, parserVars, definitionVars>>

call_check_mission_condition(mission, action_type, action_data) ==
    LET r == check_mission_condition(mission, action_type, action_data)
    IN  /\ ret' = IF r \in {"True", "False"} THEN <<r>> ELSE <<>>
        /\ raised' = IF r \in {"True", "False"} THEN "none" ELSE r
        /\ evaluated' = {mission.id}
        /\ call' = "check_mission_condition"
        /\ UNCHANGED <<today, progress, action_logs, progress_file, action_logs_file,
                       parserVars, definitionVars>>

\* the entries of missions.json and titles.json
Entries == Range(missions.main_missions) \cup Range(missions.sub_missions)
               \cup Range(titles.titles)

\* runs in which the caller also evaluates single entries
NextEval ==
    \/ Tick
    \/ \E e \in Events : Len(action_logs) < MaxEvalLog /\ log_action(e[1], e[2])
    \/ \E e \in Events : check_missions(e[1], e[2])
    \/ \E e \in Events : check_titles(e[1], e[2])
    \/ \E mission \in Entries, e \in Events :
          call_check_mission_condition(mission, e[1], e[2])

SpecEval == Init /\ [][NextEval]_vars

\* ------------------------------------------------------- crashes
\* what a write of content to a file that held `file` leaves on the disk when
\* the process ends during it: the file as it was (before open), a torn file,
\* or the whole dump (before the return)
CrashedWrite(file, content) == {file, TornFile(content), File(content)}

\* the process ends inside save_action_logs of log_action: the memory is lost
log_action_crash_in_save_action_logs(action_type, action_data) ==
    LET logged == Append(action_logs,
                     [date |-> today, action_type |-> action_type, data |-> action_data])
    IN  /\ action_logs_file' \in CrashedWrite(action_logs_file, logged)
        /\ call' = "crashed"
        /\ ret' = <<>>
        /\ evaluated' = {}
        /\ raised' = "none"
        /\ UNCHANGED <<today, progress, action_logs, progress_file, parserVars, definitionVars>>

\* the process ends inside save_progress of update_action_count of log_action
log_action_crash_in_save_progress(action_type, action_data) ==
    LET logged  == Append(action_logs,
                      [date |-> today, action_type |-> action_type, data |-> action_data])
        counted == update_action_count(progress, action_type, today)
    IN  /\ action_logs_file' = File(logged)
        /\ progress_file' \in CrashedWrite(progress_file, counted)
        /\ call' = "crashed"
        /\ ret' = <<>>
        /\ evaluated' = {}
        /\ raised' = "none"
        /\ UNCHANGED <<today, progress, action_logs, parserVars, definitionVars>>

\* load_progress and load_action_logs on the files of the data directory;
\* json.load raises on a file that holds no JSON document
load_progress_file(file, now) ==
    IF ~file.exists THEN load_progress(now)
    ELSE IF file.whole THEN file.content
    ELSE [type |-> "JSONDecodeError"]

load_action_logs(file) ==
    IF ~file.exists THEN [loaded |-> TRUE, logs |-> <<>>]
    ELSE IF file.whole THEN [loaded |-> TRUE, logs |-> file.content]
    ELSE [loaded |-> FALSE, logs |-> <<>>]

\* MissionSystem(data_dir) after a crash: a load that raises ends the new
\* process too
__init__ ==
    LET p == load_progress_file(progress_file, today)
        l == load_action_logs(action_logs_file)
    IN  /\ call = "crashed"
        /\ IF p = [type |-> "JSONDecodeError"] \/ ~l.loaded
           THEN /\ raised' = "JSONDecodeError"
                /\ call' = "crashed"
                /\ UNCHANGED <<progress, action_logs, missions, titles>>
           ELSE /\ raised' = "none"
                /\ call' = "init"
                /\ missions' = load_missions(missions_file)
                /\ titles' = load_titles(titles_file)
                /\ progress' = p
                /\ action_logs' = l.logs
        /\ ret' = <<>>
        /\ evaluated' = {}
        /\ UNCHANGED <<today, progress_file, action_logs_file, parserVars,
                       missions_file, titles_file>>

NextCrash ==
    \/ call # "crashed" /\ Tick
    \/ \E e \in Events :
          /\ call # "crashed"
          /\ Len(action_logs) < MaxCrashLog
          /\ \/ log_action(e[1], e[2])
             \/ log_action_crash_in_save_action_logs(e[1], e[2])
             \/ log_action_crash_in_save_progress(e[1], e[2])
    \/ __init__

SpecCrash == Init /\ [][NextCrash]_vars

\* ------------------------------------------------------- failed writes
\* what a write that raises OSError leaves on the disk: the file as it was
\* (open raised) or a torn file (a write of json.dump raised)
FailedWrite(file, content) == {file, TornFile(content)}

\* log_action whose save_action_logs raises: the entry is appended, the
\* exception leaves log_action before update_action_count
log_action_save_action_logs_raises(action_type, action_data) ==
    /\ action_logs' = Append(action_logs,
           [date |-> today, action_type |-> action_type, data |-> action_data])
    /\ action_logs_file' \in FailedWrite(action_logs_file, action_logs')
    /\ call' = "log_action"
    /\ ret' = <<>>
    /\ evaluated' = {}
    /\ raised' = "OSError"
    /\ UNCHANGED <<today, progress, progress_file, parserVars, definitionVars>>

\* log_action whose save_progress raises: the entry is appended and saved,
\* the counts are updated, the exception leaves update_action_count and
\* log_action before update_daily_metrics
log_action_save_progress_raises(action_type, action_data) ==
    /\ action_logs' = Append(action_logs,
           [date |-> today, action_type |-> action_type, data |-> action_data])
    /\ action_logs_file' = File(action_logs')
    /\ progress' = update_action_count(progress, action_type, today)
    /\ progress_file' \in FailedWrite(progress_file, progress')
    /\ call' = "log_action"
    /\ ret' = <<>>
    /\ evaluated' = {}
    /\ raised' = "OSError"
    /\ UNCHANGED <<today, parserVars, definitionVars>>

NextFail ==
    \/ Tick
    \/ \E e \in Events :
          /\ Len(action_logs) < MaxCrashLog
          /\ \/ log_action(e[1], e[2])
             \/ log_action_save_action_logs_raises(e[1], e[2])
             \/ log_action_save_progress_raises(e[1], e[2])

SpecFail == Init /\ [][NextFail]_vars

\* runs that log mining events of two power values
PeriodEvents == { <<"mining", PowerData(15)>>, <<"mining", PowerData(25)>> }

NextPeriod ==
    \/ Tick
    \/ \E e \in PeriodEvents : Len(action_logs) < MaxPeriodLog /\ log_action(e[1], e[2])

SpecPeriod == Init /\ [][NextPeriod]_vars

\* runs that log mining events whose data holds hashrate_khps, a metric that
\* is no key of the daily metrics, beside power_usage_W
HashData(w, h) ==
    Data({"power_usage_W", "hashrate_khps"},
         [m \in AllMetrics |-> IF m = "hashrate_khps" THEN h ELSE w])

MetricEvents == { <<"mining", HashData(15, 2)>>, <<"mining", PowerData(25)>> }

NextMetric ==
    \/ Tick
    \/ \E e \in MetricEvents : Len(action_logs) < MaxMetricLog /\ log_action(e[1], e[2])

SpecMetric == Init /\ [][NextMetric]_vars

\* ------------------------------------------------------- definitions added
\* add_mission(mission_data, mission_type): a list is made for a type that
\* has none, the mission is appended (no look at its id) and the file is
\* written
add_mission(mission_data, mission_type) ==
    LET had == IF mission_type \in DOMAIN missions THEN missions
               ELSE (mission_type :> <<>>) @@ missions
    IN  /\ missions' = [had EXCEPT ![mission_type] = Append(@, mission_data)]
        /\ missions_file' = File(missions')
        /\ call' = "add_mission"
        /\ ret' = <<>>
        /\ evaluated' = {}
        /\ raised' = "none"
        /\ UNCHANGED <<today, progress, action_logs, progress_file, action_logs_file,
                       parserVars, titles, titles_file>>

\* add_title(title_data)
add_title(title_data) ==
    /\ titles' = [titles EXCEPT !.titles = Append(@, title_data)]
    /\ titles_file' = File(titles')
    /\ call' = "add_title"
    /\ ret' = <<>>
    /\ evaluated' = {}
    /\ raised' = "none"
    /\ UNCHANGED <<today, progress, action_logs, progress_file, action_logs_file,
                   parserVars, missions, missions_file>>

\* get_available_missions(): of each of the two lists, the missions whose id
\* is not among the completed ones
get_available_missions ==
    /\ ret' = [ main_missions |-> SelectSeq(missions.main_missions,
                    LAMBDA mission : mission.id \notin Range(progress.completed_missions)),
                sub_missions  |-> SelectSeq(missions.sub_missions,
                    LAMBDA mission : mission.id \notin Range(progress.completed_missions)) ]
    /\ call' = "get_available_missions"
    /\ evaluated' = {}
    /\ raised' = "none"
    /\ UNCHANGED <<today, progress, action_logs, progress_file, action_logs_file,
                   parserVars, definitionVars>>

\* get_unlocked_titles()
get_unlocked_titles ==
    /\ ret' = SelectSeq(titles.titles,
                  LAMBDA title : title.id \in Range(progress.unlocked_titles))
    /\ call' = "get_unlocked_titles"
    /\ evaluated' = {}
    /\ raised' = "none"
    /\ UNCHANGED <<today, progress, action_logs, progress_file, action_logs_file,
                   parserVars, definitionVars>>

\* `mine_log` 実行回数 ≥ 1, as the parsed dict and as the sentence
TotalMining1 ==
    [ type |-> "total_action_count", action |-> "mining", operator |-> ">=", count |-> 1 ]

TotalMining1Text ==
    Text(<<Id("mine_log"), Lit("jikkou_kaisuu"), Op("GE"), Val(<<"1">>)>>)

\* the definitions a caller adds: a mission and a title that the first mining
\* event completes, a mission that the third one completes, and a mission
\* and a title whose condition is kept as its sentence
AddableMissions == { Entry("m_first", TotalMining1), Entry("m_total3", TotalMining3),
                     Entry("m_text", TotalMining1Text) }

AddableTitles == { Entry("t_first", TotalMining1), Entry("t_text", TotalMining1Text) }

MissionTypes == {"main_missions", "sub_missions", "event_missions"}

\* the definitions held, over every list
NumDefs ==
    LET RECURSIVE Total(_)
        Total(types) == IF types = {} THEN 0
                        ELSE LET t == CHOOSE x \in types : TRUE
                             IN  Len(missions[t]) + Total(types \ {t})
    IN  Total(DOMAIN missions) + Len(titles.titles)

\* MissionSystem(data_dir) on an empty data directory
InitDefs ==
    /\ missions_file = [exists |-> FALSE, whole |-> TRUE, content |-> <<>>]
    /\ titles_file = [exists |-> FALSE, whole |-> TRUE, content |-> <<>>]
    /\ missions = load_missions(missions_file)
    /\ titles = load_titles(titles_file)
    /\ ProgressInit
    /\ text = <<>>
    /\ parsed = NoParse
    /\ pc = "idle"

NextDefs ==
    \/ \E mission_data \in AddableMissions, mission_type \in MissionTypes :
          NumDefs < MaxDefs /\ add_mission(mission_data, mission_type)
    \/ \E title_data \in AddableTitles : NumDefs < MaxDefs /\ add_title(title_data)
    \/ Len(action_logs) < MaxDefLog /\ log_action("mining", PowerData(15))
    \/ check_missions("mining", PowerData(15))
    \/ check_titles("mining", PowerData(15))
    \/ get_available_missions
    \/ get_unlocked_titles

SpecDefs == InitDefs /\ [][NextDefs]_vars

\* the parser applied to each sentence of Sentences
InitParse ==
    /\ MissionInit
    /\ text \in Sentences
    /\ parsed = NoParse
    /\ pc = "text"

NextParse == Parse

SpecParse == InitParse /\ [][NextParse]_vars

\* _parse_value applied to each string of ValueStrings: the strings of at
\* most MaxValueLen characters of ValueChars, the spellings of true and
\* false, and two longer strings that are no number
ValueChars == {"1", "0", ".", "a", " "}

StringsOf(n) == UNION { [1..k -> ValueChars] : k \in 0..n }

ValueStrings ==
    StringsOf(MaxValueLen)
    \cup { <<"t", "r", "u", "e">>, <<"T", "r", "u", "e">>, <<"T", "R", "U", "E">>,
           <<"t", "R", "u", "E">>, <<"f", "a", "l", "s", "e">>,
           <<"F", "a", "l", "s", "e">>, <<"F", "A", "L", "S", "E">>,
           <<"1", ".", "2", ".", "3">>, <<"a", "b", "c">>, <<"1", "0", ".", "2", "5">> }

InitValue ==
    /\ MissionInit
    /\ text \in ValueStrings
    /\ parsed = NoParse
    /\ pc = "value"

\* _parse_value(text)
ParseValue ==
    /\ pc = "value"
    /\ parsed' = _parse_value(text)
    /\ pc' = "valued"
    /\ UNCHANGED <<text, missionVars>>

NextValue == ParseValue

SpecValue == InitValue /\ [][NextValue]_vars

\* ------------------------------------------------------- properties
\* what a run shows of itself: the events logged, the event a step logs, the
\* entries a definition file holds
NumLogged(action_type) ==
    Cardinality({i \in 1..Len(action_logs) : action_logs[i].action_type = action_type})

LoggedNow(action_type) ==
    /\ call' = "log_action"
    /\ Len(action_logs') = Len(action_logs) + 1
    /\ action_logs'[Len(action_logs')].action_type = action_type

LoggedToday(action_type) ==
    {i \in 1..Len(action_logs) : /\ action_logs[i].action_type = action_type
                                 /\ action_logs[i].date = today}

Completed == Range(progress.completed_missions)

Unlocked == Range(progress.unlocked_titles)

MiningEvent == <<"mining", PowerData(15)>>

\* C1: with the open mission m_total3, whose condition is
\* total_action_count(mining, >=, 3): before and after every step the
\* condition is true exactly when at least 3 mining events are logged (false
\* after the 1st and 2nd, true after the 3rd, still true after the 4th); a
\* check_missions for a mining event returns and completes m_total3 when
\* the 3rd is logged and the mission is open, and never earlier.
C1_Counted ==
    /\ (check_total_action_count(TotalMining3, "mining") = "True")
           <=> (NumLogged("mining") >= 3)
    /\ "m_total3" \in Completed => NumLogged("mining") >= 3

C1_TotalCountThreshold ==
    [][ /\ C1_Counted
        /\ C1_Counted'
        /\ check_missions(MiningEvent[1], MiningEvent[2]) =>
              /\ NumLogged("mining") < 3 =>
                    "m_total3" \notin Range(ret') \cup Range(progress'.completed_missions)
              /\ NumLogged("mining") >= 3 /\ "m_total3" \notin Completed =>
                    /\ "m_total3" \in Range(ret')
                    /\ "m_total3" \in Range(progress'.completed_missions) ]_vars

C1_Witness ==
    /\ NumLogged("mining") = 4
    /\ check_total_action_count(TotalMining3, "mining") = "True"
    /\ "m_total3" \in Completed

\* C2: in every step the ids in completed_missions and unlocked_titles stay
\* there, each once; a step of check_missions or check_titles evaluates no
\* id that was completed or unlocked before it and returns none of them, and
\* what it returns it has added to the list it checks.
C2_CompletedIsFinal ==
    [][ /\ Completed \subseteq Range(progress'.completed_missions)
        /\ Unlocked \subseteq Range(progress'.unlocked_titles)
        /\ Cardinality(Range(progress'.completed_missions))
               = Len(progress'.completed_missions)
        /\ Cardinality(Range(progress'.unlocked_titles)) = Len(progress'.unlocked_titles)
        /\ call' \in {"check_missions", "check_titles"} =>
              /\ evaluated' \cap (Completed \cup Unlocked) = {}
              /\ Range(ret') \cap (Completed \cup Unlocked) = {}
        /\ call' = "check_missions" =>
              Range(ret') \subseteq Range(progress'.completed_missions)
        /\ call' = "check_titles" =>
              Range(ret') \subseteq Range(progress'.unlocked_titles) ]_vars

C2_Witness ==
    /\ call = "check_missions"
    /\ raised = "none"
    /\ "m_total3" \in Completed
    /\ "m_total3" \notin evaluated
    /\ "m_unknown" \in evaluated
    /\ ret = <<>>

\* C3: a sentence that both the daily-count template (4th of the list) and
\* the daily-compound template (9th) match parses to the condition the
\* daily-compound builder gives for it, with both clauses.
C3_DailyCompoundParsed ==
    pc = "parsed" /\ {4, 9} \subseteq Matching(text) =>
        /\ parsed.type = "daily_compound"
        /\ parsed = _parse_daily_compound_condition(re_search(patterns[9], text).groups)

C3_Witness ==
    /\ pc = "parsed"
    /\ {4, 9} \subseteq Matching(text)
    /\ parsed.type = "daily_action_count"
    /\ "metric" \notin DOMAIN parsed

\* C4: a log_action on a date other than the stored reset date stores the
\* new date, leaves every total count at its value but for the event's
\* action, which grows by one, leaves the daily count of the event's action
\* at 1 and every other daily count at 0, and leaves each daily metric sum
\* at what the event carries of it.
C4_DayChangeReset ==
    [][ call' = "log_action" /\ progress.daily_actions.date # today =>
          LET event == action_logs'[Len(action_logs')]
              Actions == PredefinedActions \cup {event.action_type}
          IN  /\ progress'.daily_actions.date = today
              /\ \A a \in Actions :
                    /\ GetCount(progress'.action_counts, a)
                         = GetCount(progress.action_counts, a)
                             + (IF a = event.action_type THEN 1 ELSE 0)
                    /\ GetCount(progress'.daily_actions.counts, a)
                         = (IF a = event.action_type THEN 1 ELSE 0)
              /\ \A m \in DailyMetricKeys :
                    progress'.daily_metrics[m]
                        = (IF m \in event.data.keys THEN event.data.val[m] ELSE 0) ]_vars

C4_Witness ==
    /\ call = "log_action"
    /\ Len(action_logs) = 2
    /\ action_logs[1].date # today
    /\ action_logs[2].date = today
    /\ action_logs[2].action_type = "custom"
    /\ progress.daily_actions.date = today
    /\ \A a \in PredefinedActions \cup {"custom"} :
          GetCount(progress.daily_actions.counts, a) = 0
    /\ progress.daily_metrics["power_usage_W"] = 25

\* C5: a step that logs an advance_day event sets last_date to the date of
\* the event; it sets the streak to 1 when there was no last_date or when
\* the event is dated two or more days after it, and adds 1 to the streak
\* when the event is dated the day after it.
C5_StreakUpdate ==
    [][ LoggedNow("advance_day") =>
          LET last_date == progress.consecutive_days.last_date
              streak    == progress.consecutive_days.advance_day
              date      == action_logs'[Len(action_logs')].date
          IN  /\ progress'.consecutive_days.last_date = date
              /\ last_date = NoDate => progress'.consecutive_days.advance_day = 1
              /\ last_date # NoDate /\ date - last_date = 1 =>
                    progress'.consecutive_days.advance_day = streak + 1
              /\ last_date # NoDate /\ date - last_date >= 2 =>
                    progress'.consecutive_days.advance_day = 1 ]_vars

C5_Witness ==
    /\ NumLogged("advance_day") = 3
    /\ \A i \in 1..3 : action_logs[i].date = i
    /\ progress.consecutive_days.advance_day = 3
    /\ progress.consecutive_days.last_date = 3

\* C6: a step that logs an advance_day event dated as last_date leaves a
\* streak of 2 or more as it is.
C6_SameDateKeepsStreak ==
    [][ /\ LoggedNow("advance_day")
        /\ progress.consecutive_days.last_date = action_logs'[Len(action_logs')].date
        /\ progress.consecutive_days.advance_day >= 2
        => progress'.consecutive_days.advance_day
               = progress.consecutive_days.advance_day ]_vars

C6_Witness ==
    /\ Len(action_logs) = 3
    /\ \A i \in 1..3 : action_logs[i].action_type = "advance_day"
    /\ action_logs[1].date = 1 /\ action_logs[2].date = 2 /\ action_logs[3].date = 2
    /\ progress.consecutive_days.advance_day = 1

\* C7: the entries whose condition has type unknown, m_unknown and
\* t_unknown, are in no state completed or unlocked, no check returns them,
\* and check_mission_condition gives False for them for every event.
C7_UnknownNeverCompletes ==
    /\ "m_unknown" \notin Completed \cup Range(ret)
    /\ "t_unknown" \notin Unlocked \cup Range(ret)
    /\ \A e \in Events :
          /\ check_mission_condition(Entry("m_unknown", UnknownCondition), e[1], e[2])
                 = "False"
          /\ check_mission_condition(Entry("t_unknown", UnknownCondition), e[1], e[2])
                 = "False"

C7_Witness ==
    /\ call = "check_missions"
    /\ "m_unknown" \in evaluated
    /\ "m_total3" \in Range(ret)
    /\ "m_unknown" \notin Completed

\* C8: when the one event logged is a mining event of today with
\* power_usage_W = 15, the condition daily_compound(mining, >=, 1,
\* power_usage_W, <=, 20) evaluates to True for that event, and a
\* check_missions that evaluated its mission m_compound has completed it.
C8_DailyCompoundHolds ==
    /\ Len(action_logs) = 1
    /\ action_logs[1] = [date |-> today, action_type |-> MiningEvent[1],
                         data |-> MiningEvent[2]]
    => /\ check_mission_condition(Entry("m_compound", DailyCompoundCondition),
                                  MiningEvent[1], MiningEvent[2]) = "True"
       /\ "m_compound" \in evaluated => "m_compound" \in Completed

C8_Witness ==
    /\ Len(action_logs) = 1
    /\ LoggedToday("mining") = {1}
    /\ progress.daily_metrics["power_usage_W"] = 15
    /\ call = "check_missions"
    /\ "m_compound" \in evaluated
    /\ "m_compound" \notin Completed

\* C9: a text that no template matches parses, with no exception, to the
\* condition of type unknown whose description is the text; the sentences
\* of NonTemplateSentences are such texts.
C9_UnknownKeepsText ==
    pc = "parsed" =>
        /\ text \in NonTemplateSentences => Matching(text) = {}
        /\ Matching(text) = {} =>
              /\ parsed # ValueError
              /\ parsed = [type |-> "unknown", action |-> "unknown", description |-> text]

C9_Witness ==
    /\ pc = "parsed"
    /\ Matching(text) = {}
    /\ Len(text) = 5
    /\ parsed.type = "unknown"
    /\ parsed.description = text

\* C10: no check of the missions or titles ends with an exception: each
\* evaluation in it gives True or False, also the one of m_malformed, whose
\* value is a string compared with >= against the number the event carries;
\* and the condition of m_xmr, whose metric no event carries, evaluates to
\* False for every event.
C10_NeverRaises ==
    /\ raised = "none"
    /\ \A e \in Events :
          check_mission_condition(Entry("m_xmr", XmrCondition), e[1], e[2]) = "False"

C10_Witness ==
    /\ call = "check_missions"
    /\ raised = "TypeError"
    /\ "m_malformed" \in evaluated
    /\ "m_xmr" \in evaluated
    /\ "m_xmr" \notin Completed
    /\ ret = <<>>

SixOperators == {">=", "<=", "==", "!=", ">", "<"}

Holds(l, operator, r) ==
    CASE operator = ">=" -> l >= r
      [] operator = "<=" -> l <= r
      [] operator = "==" -> l = r
      [] operator = "!=" -> l # r
      [] operator = ">"  -> l > r
      [] operator = "<"  -> l < r

Bool(b) == IF b THEN "True" ELSE "False"

CountCondition(type, action, operator, count) ==
    [ type |-> type, action |-> action, operator |-> operator, count |-> count ]

\* C12: for each of the six operators and each target count, a condition on
\* the total count of mining and one on its daily count evaluate, for a
\* mining event, to (current count operator target count).
C12_SixOperators ==
    \A operator \in SixOperators, count \in 0..3 :
        /\ check_mission_condition(
               Entry("m", CountCondition("total_action_count", "mining", operator, count)),
               MiningEvent[1], MiningEvent[2])
             = Bool(Holds(progress.action_counts["mining"], operator, count))
        /\ check_mission_condition(
               Entry("m", CountCondition("daily_action_count", "mining", operator, count)),
               MiningEvent[1], MiningEvent[2])
             = Bool(Holds(progress.daily_actions.counts["mining"], operator, count))

C12_Witness ==
    /\ progress.action_counts["mining"] = 3
    /\ progress.daily_actions.counts["mining"] = 1
    /\ check_total_action_count(CountCondition("total_action_count", "mining", ">", 2),
                                "mining") = "False"
    /\ check_daily_action_count(CountCondition("daily_action_count", "mining", "!=", 0),
                                "mining") = "False"

DailyMiningOnce == CountCondition("daily_action_count", "mining", ">=", 1)

\* C13: in a state where no mining event is logged with today's date, the
\* condition daily_action_count(mining, >=, 1) evaluates to False for a
\* mining event: the counts of an earlier day are not used.
C13_NoStaleDailyCount ==
    LoggedToday("mining") = {} =>
        check_mission_condition(Entry("m", DailyMiningOnce), MiningEvent[1], MiningEvent[2])
            = "False"

C13_Witness ==
    /\ today = 2
    /\ Len(action_logs) = 1
    /\ action_logs[1].date = 1
    /\ action_logs[1].action_type = "mining"
    /\ progress.daily_actions.date = 1
    /\ check_daily_action_count(DailyMiningOnce, "mining") = "True"

\* C14: when the process has ended inside save_progress or save_action_logs,
\* each of the two files is whole, holding the dump written before or the
\* new one, and the loads of the next MissionSystem do not raise.
C14_CrashLeavesWholeFile ==
    /\ call = "crashed" => progress_file.whole /\ action_logs_file.whole
    /\ raised # "JSONDecodeError"

C14_Witness ==
    /\ call = "crashed"
    /\ raised = "JSONDecodeError"
    /\ progress_file.exists
    /\ ~progress_file.whole
    /\ action_logs_file.whole

\* the sum of a metric over the entries of the log dated `date`
RECURSIVE LoggedSum(_, _, _)
LoggedSum(logs, metric, date) ==
    IF logs = <<>> THEN 0
    ELSE (IF Head(logs).date = date /\ metric \in Head(logs).data.keys
          THEN Head(logs).data.val[metric] ELSE 0)
         + LoggedSum(Tail(logs), metric, date)

\* C15: also after a log_action whose write raised, the memory agrees with
\* itself: the total count of mining and of advance_day is the number of
\* their entries in the action log, the daily count is the number of their
\* entries dated as the reset date, the streak is 0 exactly when no
\* advance_day is logged, and each daily metric sum is the sum over the
\* entries dated as the reset date; and the exception reaches the caller.
C15_MemoryConsistent ==
    /\ \A a \in {"mining", "advance_day"} :
          /\ progress.action_counts[a] = NumLogged(a)
          /\ progress.daily_actions.counts[a]
               = Cardinality({i \in 1..Len(action_logs) :
                                 /\ action_logs[i].action_type = a
                                 /\ action_logs[i].date = progress.daily_actions.date})
    /\ (progress.consecutive_days.advance_day = 0) <=> (NumLogged("advance_day") = 0)
    /\ \A m \in DailyMetricKeys :
          progress.daily_metrics[m]
              = LoggedSum(action_logs, m, progress.daily_actions.date)

C15_Witness ==
    /\ call = "log_action"
    /\ raised = "OSError"
    /\ NumLogged("mining") = 1
    /\ progress.action_counts["mining"] = 0
    /\ action_logs_file.exists

PowerIncrease2 ==
    [ type |-> "incremental_increase", metric |-> "power_usage_W", days |-> 2 ]

\* the log entries that carry a metric, in log order
Carrying(metric) == SelectSeq(action_logs, LAMBDA log : metric \in log.data.keys)

\* C16: incremental_increase(power_usage_W, 2) evaluates to True exactly
\* when at least 2 log entries carry power_usage_W and the values of the
\* last 2 entries that carry it are strictly increasing, whatever entries
\* without the metric lie among them.
C16_IncreaseOverCarryingEntries ==
    LET carrying == Carrying("power_usage_W")
        n        == Len(carrying)
    IN  \A e \in Events :
          check_mission_condition(Entry("m", PowerIncrease2), e[1], e[2])
            = Bool(/\ n >= 2
                   /\ carrying[n].data.val["power_usage_W"]
                        > carrying[n - 1].data.val["power_usage_W"])

C16_Witness ==
    /\ Len(action_logs) = 3
    /\ action_logs[1].data = PowerData(15)
    /\ action_logs[2].data = NoData
    /\ action_logs[3].data = PowerData(25)
    /\ check_incremental_increase_condition(PowerIncrease2) = "False"

\* `mine_log` の `power_usage_W` operator 20 over 2 day
PowerOver2Days(operator) ==
    [ type |-> "over_period", action |-> "mining", metric |-> "power_usage_W",
      operator |-> operator, value |-> IntV(20), days |-> 2 ]

\* C17: for each of the six operators, over_period(mining, power_usage_W,
\* operator, 20, 2) evaluates to True for a mining event only when every
\* logged mining event that carries power_usage_W and is dated within the
\* last 2 calendar days satisfies (value operator 20).
C17_EveryEventInWindow ==
    \A operator \in SixOperators, e \in PeriodEvents :
        check_mission_condition(Entry("m", PowerOver2Days(operator)), e[1], e[2]) = "True"
        => \A i \in 1..Len(action_logs) :
              /\ action_logs[i].action_type = "mining"
              /\ "power_usage_W" \in action_logs[i].data.keys
              /\ action_logs[i].date > today - 2
              => Holds(action_logs[i].data.val["power_usage_W"], operator, 20)

C17_Witness ==
    /\ Len(action_logs) = 3
    /\ \A i \in 1..3 : action_logs[i].date = today
    /\ action_logs[1].data = PowerData(25)
    /\ action_logs[2].data = PowerData(15)
    /\ action_logs[3].data = PowerData(15)
    /\ check_over_period_condition(PowerOver2Days("<="), "mining", PowerData(15)) = "True"

\* `mine_log` と `advance_day` を同日に両方実行 operator count
MiningAndAdvanceDay(operator, count) ==
    [ type |-> "same_day_both", actions |-> <<"mining", "advance_day">>,
      operator |-> operator, count |-> count ]

\* C18: same_day_both(mining, advance_day) evaluates to True exactly when the
\* action log holds a mining entry and an advance_day entry dated today,
\* whatever the count of the condition is (0, 1 or 2, with >= or ==) and
\* whatever event the evaluation is for.
C18_BothLoggedToday ==
    \A operator \in {">=", "=="}, count \in 0..2, e \in Events :
        check_mission_condition(Entry("m", MiningAndAdvanceDay(operator, count)), e[1], e[2])
          = Bool(LoggedToday("mining") # {} /\ LoggedToday("advance_day") # {})

C18_Witness ==
    /\ LoggedToday("mining") # {}
    /\ LoggedToday("advance_day") # {}
    /\ today = 2
    /\ action_logs[1].date = 1
    /\ check_same_day_both_condition(MiningAndAdvanceDay(">=", 1), "mining") = "True"
    /\ check_same_day_both_condition(MiningAndAdvanceDay("==", 2), "mining") = "False"
    /\ check_same_day_both_condition(MiningAndAdvanceDay(">=", 0), "mining") = "False"

\* C19: whenever the stored total count, daily count or streak satisfies
\* the comparison of total_action_count(mining, >=, 3),
\* daily_action_count(mining, >=, 1) or consecutive_days(advance_day, 2),
\* the condition evaluates to True for every event, of whatever action type;
\* and a check_missions that evaluated the open m_total3 with the count at 3
\* or more has completed it.
C19_TriggerIndependent ==
    /\ \A e \in Events :
          /\ progress.action_counts["mining"] >= 3 =>
                check_mission_condition(Entry("m_total3", TotalMining3), e[1], e[2]) = "True"
          /\ progress.daily_actions.counts["mining"] >= 1 =>
                check_mission_condition(Entry("m", DailyMiningOnce), e[1], e[2]) = "True"
          /\ progress.consecutive_days.advance_day >= 2 =>
                check_mission_condition(Entry("t_streak2", Streak2Condition), e[1], e[2])
                    = "True"
    /\ /\ call = "check_missions"
       /\ "m_total3" \in evaluated
       /\ progress.action_counts["mining"] >= 3
       => "m_total3" \in Completed

C19_Witness ==
    /\ call = "check_missions"
    /\ raised = "none"
    /\ "m_total3" \in evaluated
    /\ progress.action_counts["mining"] = 3
    /\ "m_total3" \notin Completed
    /\ check_total_action_count(TotalMining3, "advance_day") = "False"
    /\ check_total_action_count(TotalMining3, "mining") = "True"

\* the action types of the events of a run
ActionTypes == PredefinedActions \cup {e[1] : e \in Events}

\* C20: a step of log_action for an event of action type a, predefined or
\* not, adds exactly 1 to the total count of a and to today's daily count of
\* a (which starts again from 0 on a new day) and leaves the counts of every
\* other action type as they are; after it the total count of each action
\* type is the number of its entries in the action log.
C20_EveryTypeCounted ==
    [][ call' = "log_action" =>
          LET a == action_logs'[Len(action_logs')].action_type
              Daily(b) == IF progress.daily_actions.date = today
                          THEN GetCount(progress.daily_actions.counts, b) ELSE 0
              One(b) == IF b = a THEN 1 ELSE 0
          IN  \A b \in ActionTypes :
                /\ GetCount(progress'.action_counts, b)
                     = GetCount(progress.action_counts, b) + One(b)
                /\ GetCount(progress'.daily_actions.counts, b) = Daily(b) + One(b)
                /\ GetCount(progress'.action_counts, b) = NumLogged(b)' ]_vars

C20_Witness ==
    /\ call = "log_action"
    /\ NumLogged("custom") = 2
    /\ NumLogged("mining") = 1
    /\ GetCount(progress.action_counts, "custom") = 0
    /\ GetCount(progress.daily_actions.counts, "custom") = 0
    /\ "custom" \notin DOMAIN progress.action_counts
    /\ progress.action_counts["mining"] = 1

\* C21: each of these sentences of the grammar table parses to its own
\* variant and not to unknown: `A` jikkou_kaisuu >= N to total_action_count,
\* `A` no `M` >= V to simple, 1nichinai_no `A` kaisuu >= N to
\* daily_action_count, N nichi_renzoku de `A` wo_jikkou to consecutive_days,
\* `a` to `b` wo_doujitsu_ni_ryouhou_jikkou >= N to same_day_both, and
\* `x` no `y` in [7,14,21] no_izureka_de_kidou to range_check with the
\* values 7, 14 and 21.
C21_GrammarTable ==
    pc = "parsed" =>
        /\ text = <<Id("mine_log"), Lit("jikkou_kaisuu"), Op("GE"), Val(<<"3">>)>> =>
              parsed = [ type |-> "total_action_count", action |-> "mining",
                         operator |-> ">=", count |-> 3 ]
        /\ \A a \in SentenceActions, v \in ValueLiterals :
              text = SimpleSentence(a, "power_usage_W", "GE", v) =>
                  parsed = [ type |-> "simple", action |-> MapAction(a),
                             metric |-> "power_usage_W", operator |-> ">=",
                             value |-> _parse_value(v) ]
        /\ \A a \in SentenceActions :
              text = DailySentence(a, "GE", <<"1">>) =>
                  parsed = [ type |-> "daily_action_count", action |-> MapAction(a),
                             operator |-> ">=", count |-> 1 ]
        /\ text = <<Tok("streak", <<"3">>), Id("advance_day"), Lit("wo_jikkou")>> =>
              parsed = [ type |-> "consecutive_days", action |-> "advance_day", days |-> 3 ]
        /\ text = <<Id("mine_log"), Lit("to"), Id("design_plant"),
                    Lit("wo_doujitsu_ni_ryouhou_jikkou"), Op("GE"), Val(<<"1">>)>> =>
              parsed = [ type |-> "same_day_both", actions |-> <<"mining", "power_plant">>,
                         operator |-> ">=", count |-> 1 ]
        /\ text = <<Id("advance_day"), Lit("no"), Id("day_count"), Lit("in"),
                    Tok("list", <<"7", ",", "1", "4", ",", "2", "1">>),
                    Lit("no_izureka_de_kidou")>> =>
              parsed = [ type |-> "range_check", action |-> "advance_day",
                         metric |-> "day_count", values |-> <<7, 14, 21>> ]

C21_Witness ==
    /\ pc = "parsed"
    /\ text = <<Id("advance_day"), Lit("no"), Id("day_count"), Lit("in"),
                Tok("list", <<"7", ",", "1", "4", ",", "2", "1">>),
                Lit("no_izureka_de_kidou")>>
    /\ parsed.type = "range_check"
    /\ parsed.values = <<7, 14, 21>>

\* the spellings of true and of false among ValueStrings
TrueSpellings == { <<"t", "r", "u", "e">>, <<"T", "r", "u", "e">>, <<"T", "R", "U", "E">>,
                   <<"t", "R", "u", "E">> }

FalseSpellings == { <<"f", "a", "l", "s", "e">>, <<"F", "a", "l", "s", "e">>,
                    <<"F", "A", "L", "S", "E">> }

Trimmed(cs) == cs = <<>> \/ (cs[1] # " " /\ cs[Len(cs)] # " ")

\* C22: _parse_value never raises and, on a trimmed string, applies its
\* rules in order: true and false in any letter case give a Bool; otherwise
\* a string with a dot that parses as a number gives a Float; otherwise a
\* string that parses as an integer gives an Int; every other string, such
\* as 1.2.3 or abc, comes back unchanged as a Str.
C22_ValueRules ==
    pc = "valued" =>
        /\ parsed.t \in {"bool", "int", "float", "str"}
        /\ Trimmed(text) =>
              /\ text \in TrueSpellings => parsed = BoolV(TRUE)
              /\ text \in FalseSpellings => parsed = BoolV(FALSE)
              /\ text \notin TrueSpellings \cup FalseSpellings =>
                    /\ parsed.t # "bool"
                    /\ parsed.t = "float" <=> "." \in Range(text) /\ IsFloatLit(text)
                    /\ parsed.t = "int" <=> "." \notin Range(text) /\ IsIntLit(text)
                    /\ parsed.t = "int" => parsed = IntV(IntOf(text))
                    /\ parsed.t = "str" => parsed = StrV(text)
              /\ text = <<"1", ".", "0">> => parsed = FloatV(10, 10)
              /\ text = <<"1", "0", ".", "2", "5">> => parsed = FloatV(1025, 100)
              /\ text = <<".", "1">> => parsed = FloatV(1, 10)
              /\ text = <<"1", ".">> => parsed = FloatV(1, 1)
              /\ text = <<"1", "0">> => parsed = IntV(10)
              /\ text = <<"0", "1", "0">> => parsed = IntV(10)
              /\ text = <<"1", ".", "2", ".", "3">> => parsed = StrV(text)
              /\ text = <<"a", "b", "c">> => parsed = StrV(text)
              /\ text = <<".">> => parsed = StrV(text)
              /\ text = <<"1", "a">> => parsed = StrV(text)
              /\ text = <<"1", " ", "1">> => parsed = StrV(text)
              /\ text = <<>> => parsed = StrV(text)

C22_Witness ==
    /\ pc = "valued"
    /\ text = <<"T", "R", "U", "E">>
    /\ parsed = BoolV(TRUE)

\* C23: a mission or title whose condition is kept as its sentence is
\* accepted: the check_missions or check_titles that evaluates it returns
\* without raising, and the entry is completed or unlocked exactly when the
\* condition that parse_condition_text yields for the sentence holds.
C23_RawTextAccepted ==
    call \in {"check_missions", "check_titles"} =>
        \A entry \in Entries :
            entry.id \in evaluated /\ IsStr(entry.condition) =>
                /\ raised = "none"
                /\ entry.id \in Completed \cup Unlocked
                     <=> check_mission_condition(
                             Entry(entry.id, parse_condition_text(entry.condition.str)),
                             "mining", PowerData(15)) = "True"

C23_Witness ==
    /\ call = "check_missions"
    /\ missions.main_missions = <<Entry("m_text", TotalMining1Text)>>
    /\ NumLogged("mining") = 1
    /\ evaluated = {"m_text"}
    /\ raised = "TypeError"
    /\ "m_text" \notin Completed
    /\ parse_condition_text(TotalMining1Text.str) = TotalMining1

\* the daily sum the progress holds for a metric; a metric that is no key of
\* the daily metrics has no sum
DailySum(metric) ==
    IF metric \in DOMAIN progress.daily_metrics
    THEN [held |-> TRUE, sum |-> progress.daily_metrics[metric]]
    ELSE [held |-> FALSE, sum |-> 0]

\* the metrics that the data of the events logged today hold
LoggedMetrics ==
    UNION { action_logs[i].data.keys :
              i \in {j \in 1..Len(action_logs) : action_logs[j].date = today} }

\* C24: after a log_action, for every numeric metric key in the data of the
\* events of the day (not only power_usage_W, mined_amount_XMR and
\* expected_output_kwh_per_day), the daily metric sum of the key is the sum of
\* its values over the events of that day; the sums start from zero again on
\* the first event of a new day.
C24_EveryMetricSummed ==
    call = "log_action" =>
        \A metric \in LoggedMetrics :
            DailySum(metric) = [held |-> TRUE, sum |-> LoggedSum(action_logs, metric, today)]

C24_Witness ==
    /\ call = "log_action"
    /\ today = 2
    /\ Len(action_logs) = 3
    /\ action_logs[1].date = 1
    /\ \A i \in {2, 3} : action_logs[i].date = 2 /\ action_logs[i].data = HashData(15, 2)
    /\ DailySum("power_usage_W") = [held |-> TRUE, sum |-> 30]
    /\ DailySum("hashrate_khps") = [held |-> FALSE, sum |-> 0]

\* the sentences of Sentences that match the plain template `A` no `M` op V
\* (template 1) and a longer template that adds a second clause to it
AndSentence ==
    <<Id("cea_run"), Lit("no"), Id("isp_sec"), Op("GE"), Val(<<"3", "1", "0">>), Lit("and"),
      Id("chamber_pressure_bar"), Op("GE"), Val(<<"1", "0", "0">>)>>

KatsuSentence ==
    <<Id("cea_run"), Lit("no"), Id("isp_sec"), Op("GE"), Val(<<"3", "1", "0">>), Lit("katsu"),
      Id("chamber_pressure_bar"), Op("GE"), Val(<<"1", "0", "0">>)>>

OverSentence ==
    <<Id("mine_log"), Lit("no"), Id("power_usage_W"), Op("LE"), Val(<<"2", "0">>),
      Lit("over"), Val(<<"7">>), Lit("day")>>

PercentSentence ==
    <<Id("observe_optics"), Lit("no"), Id("tracking_accuracy"), Op("GE"), Tok("pct", <<"9", "0">>)>>

TimesSentence ==
    <<Id("mine_log"), Lit("no"), Id("power_usage_W"), Op("LE"), Val(<<"2", "0">>),
      Sym("times"), Id("hashrate_khps"), Op("GE"), Val(<<"5">>)>>

TotalOverSentence ==
    <<Lit("ruikei"), Id("mined_amount_XMR"), Op("GE"), Val(<<"1">>),
      Lit("over"), Val(<<"7">>), Lit("day")>>

\* C25: a sentence that matches the plain template `A` no `M` op V and a
\* longer template that adds a second clause parses to the variant of the
\* longer template and not to simple: compound_and with two conditions for
\* ... and `M2` op V2 and ... katsu `M2` op V2, over_period for ... over N day,
\* percentage for ... N%, multiplication for ... times `M2` op V2; and
\* ruikei `M` op V over N day parses to over_period, not to total_metric.
C25_LongerTemplateWins ==
    pc = "parsed" =>
        /\ text \in {AndSentence, KatsuSentence} =>
              /\ parsed.type = "compound_and"
              /\ Len(parsed.conditions) = 2
        /\ text = OverSentence => parsed.type = "over_period"
        /\ text = PercentSentence => parsed.type = "percentage"
        /\ text = TimesSentence => parsed.type = "multiplication"
        /\ text = TotalOverSentence => parsed.type \in {"over_period", "over_period_total"}

C25_Witness ==
    /\ pc = "parsed"
    /\ text = AndSentence
    /\ Matching(text) = {1, 7}
    /\ parsed.type = "simple"
    /\ parsed.metric = "isp_sec"

SoloSentence ==
    <<Id("mine_log"), Lit("wo"), Lit("Pool"), Lit("dewanaku"), Lit("Solo"),
      Lit("mode_de_1kai_jikkou")>>

MoonSentence == <<Id("observe_optics"), Lit("de_tsuki_wo_fukumu_kansoku_1kai_kanryou")>>

MetricCompletionSentence ==
    <<Id("build_module"), Lit("de"), Id("material_count"), Op("GE"), Val(<<"5">>),
      Lit("wo_1kai_kanryou")>>

\* C26: every template that can be the first match goes to the builder of
\* its own variant with the number of groups the builder expects, so no
\* parse of a matched sentence raises: `A` wo Pool dewanaku Solo
\* mode_de_1kai_jikkou gives solo_mode of A, `A`
\* de_tsuki_wo_fukumu_kansoku_1kai_kanryou gives moon_observation of A, and
\* `A` de `M` op V wo_1kai_kanryou gives a condition and no unpacking error.
C26_MatchedNeverRaises ==
    pc = "parsed" =>
        /\ Matching(text) # {} => parsed # ValueError
        /\ text = SoloSentence => parsed = [type |-> "solo_mode", action |-> "mining"]
        /\ text = MoonSentence => parsed = [type |-> "moon_observation", action |-> "astronomy"]
        /\ text = MetricCompletionSentence => parsed.type \in {"completion", "usage"}

C26_Witness ==
    /\ pc = "parsed"
    /\ text = SoloSentence
    /\ Matching(text) = {25}
    /\ parsed = ValueError

DailyExecutionSentence ==
    <<Lit("1nichinai_ni"), Id("mine_log"), Lit("jikkou_kaisuu"), Op("GE"), Val(<<"3">>)>>

TotalExecutionSentence ==
    <<Lit("ruikei"), Id("cea_run"), Lit("jikkou_kaisuu"), Op("GE"), Val(<<"1", "0">>)>>

\* the template of the list that parse_condition_text takes for a sentence
FirstMatch(condition_text) ==
    CHOOSE k \in Matching(condition_text) : \A j \in Matching(condition_text) : k <= j

\* C27: the sentence 1nichinai_ni `A` jikkou_kaisuu op N, the template of
\* the daily execution count (template 5), parses to daily_action_count of
\* A, op and N, which is evaluated against the count of today, and not to
\* total_action_count; and ruikei `A` jikkou_kaisuu op N parses to
\* total_action_count through its own template (template 3).
C27_DailyExecutionCount ==
    pc = "parsed" =>
        /\ text = DailyExecutionSentence =>
              /\ FirstMatch(text) = 5
              /\ parsed = [ type |-> "daily_action_count", action |-> "mining",
                            operator |-> ">=", count |-> 3 ]
        /\ text = TotalExecutionSentence =>
              /\ FirstMatch(text) = 3
              /\ parsed = [ type |-> "total_action_count", action |-> "cea",
                            operator |-> ">=", count |-> 10 ]

C27_Witness ==
    /\ pc = "parsed"
    /\ text = DailyExecutionSentence
    /\ Matching(text) = {2, 5}
    /\ parsed = [ type |-> "total_action_count", action |-> "mining",
                  operator |-> ">=", count |-> 3 ]

TypeCountSentence ==
    <<Id("mine_log"), Lit("jikkou_kaisuu"), Lit("for"), Tok("typeeq", <<"simple">>),
      Op("GE"), Val(<<"3">>)>>

\* what _parse_type_count_condition makes of the groups of the sentence
TypeCountBuilt(condition_text) ==
    _parse_type_count_condition(re_search(patterns[29], condition_text).groups)

\* C28: the sentence `A` jikkou_kaisuu for type=`T` op N parses to a
\* condition whose type tag is type_action_count whatever T is; T is kept in
\* a field of its own and the tag never takes the value of T (here simple,
\* a tag the evaluator knows).
C28_TypeCountTag ==
    pc = "parsed" /\ text = TypeCountSentence =>
        /\ parsed # ValueError
        /\ parsed.type = "type_action_count"
        /\ TypeCountBuilt(text).type = "type_action_count"
        /\ \E field \in DOMAIN TypeCountBuilt(text) \ {"type"} :
               TypeCountBuilt(text)[field] = "simple"

C28_Witness ==
    /\ pc = "parsed"
    /\ text = TypeCountSentence
    /\ Matching(text) = {29}
    /\ parsed = ValueError
    /\ TypeCountBuilt(text) = [ type |-> "simple", action |-> "mining",
                                operator |-> ">=", count |-> 3 ]

\* what a process started now would load from the progress file
Reloaded == load_progress_file(progress_file, today)

\* C29: when log_action has returned, the progress file holds the progress
\* of the memory, with the daily metric sums that the event updated: a
\* restart right after it (load_progress) loses nothing of the event's
\* effect on the counts, the streak and the daily sums.
C29_SnapshotIsMemory ==
    call = "log_action" =>
        /\ progress_file = File(progress)
        /\ Reloaded.action_counts = progress.action_counts
        /\ Reloaded.daily_actions = progress.daily_actions
        /\ Reloaded.consecutive_days = progress.consecutive_days
        /\ Reloaded.daily_metrics = progress.daily_metrics

C29_Witness ==
    /\ call = "log_action"
    /\ action_logs = <<[date |-> 1, action_type |-> "mining", data |-> PowerData(15)]>>
    /\ progress.daily_metrics["power_usage_W"] = 15
    /\ Reloaded.daily_metrics["power_usage_W"] = 0
    /\ Reloaded.action_counts = progress.action_counts

NoDuplicate(ids) == \A i, j \in 1..Len(ids) : ids[i] = ids[j] => i = j

\* the entries of a list whose id is, or is not, among ids
WithId(entries, ids) == SelectSeq(entries, LAMBDA entry : entry.id \in Range(ids))

WithoutId(entries, ids) == SelectSeq(entries, LAMBDA entry : entry.id \notin Range(ids))

====
